---- MODULE Spec2Model ----
(***************************************************************************)
(* A model of the WCS client's XML-to-domain-model parsers (wcs/parser.py) *)
(* and of the domain model they build (wcs/model.py).                      *)
(*                                                                         *)
(* The parsers are pure functions of an element tree, so the state is the  *)
(* last call made and its outcome.  Every operation of the library is one  *)
(* action: it draws its argument from a bounded set of inputs and records  *)
(* what the code returns or raises for it.                                 *)
(*                                                                         *)
(* Representation of Python values:                                        *)
(*   - every value is a record with a field "kind";                        *)
(*   - a str is Str(s), s the sequence of its lexemes.  A lexeme is a      *)
(*     maximal run of characters the code never looks inside: the code     *)
(*     splits, strips and searches strings only at the lexeme boundaries   *)
(*     of the inputs drawn here (quotes, blanks, '/', '?', '&', '=', ...); *)
(*   - a list is a TLA+ sequence, wrapped as PyList (a tuple as PyTuple)   *)
(*     where it is a result; a dict is a function on its keys, wrapped as  *)
(*     PyDict;                                                             *)
(*   - an outcome is Return(value) or Raise(exception class, message).     *)
(*                                                                         *)
(* A statement sequence is written Then(first, LAMBDA v : rest): the       *)
(* exception first raises, or rest with the value of first.                *)
(***************************************************************************)
EXTENDS Integers, Sequences, FiniteSets, TLC

VARIABLES call, outcome

vars == <<call, outcome>>

(***************************************************************************)
(* Bounds of the model.                                                    *)
(***************************************************************************)
MaxTokenLen == 3
MaxParams == 3
MaxBounds == 3
MaxChildren == 3
MaxAxes == 3
MaxFields == 2
MaxSummaries == 2
MaxDictChildren == 2
MaxCoefficients == 120

(***************************************************************************)
(* Python values and outcomes.                                             *)
(***************************************************************************)
None == [kind |-> "None"]
Str(s) == [kind |-> "str", v |-> s]
IntV(n) == [kind |-> "int", v |-> n]
FloatV(r) == [kind |-> "float", v |-> r]
DateV(d) == [kind |-> "datetime", v |-> d]
PyList(l) == [kind |-> "list", v |-> l]
PyTuple(l) == [kind |-> "tuple", v |-> l]
PyDict(f) == [kind |-> "dict", v |-> f]

Return(v) == [kind |-> "return", val |-> v]
Raise(exc, msg) == [kind |-> "raise", exc |-> exc, msg |-> msg]

WCSClientException == "WCSClientException"

IsRaise(r) == r.kind = "raise"

\* first; rest: the exception first raises, or rest with its value.
Then(first, rest(_)) == IF IsRaise(first) THEN first ELSE rest(first.val)

\* try: return first / except: alternative
OrElse(first, alternative) == IF IsRaise(first) THEN alternative ELSE first

\* The first outcome of a sequence of outcomes that is a raise: a list
\* comprehension or a loop stops at the first exception.
FirstRaise(rs) ==
    rs[CHOOSE i \in 1..Len(rs) : IsRaise(rs[i]) /\ \A j \in 1..(i - 1) : ~IsRaise(rs[j])]

AnyRaise(rs) == \E i \in 1..Len(rs) : IsRaise(rs[i])

\* The sequence <<f[1], ..., f[n]>> of a function f on 1..n.
Tuple(f) ==
    LET RECURSIVE build(_)
        build(k) == IF k = 0 THEN <<>> ELSE Append(build(k - 1), f[k])
    IN  build(Cardinality(DOMAIN f))

Vals(rs) == Tuple([i \in 1..Len(rs) |-> rs[i].val])

\* [f(x) for x in xs]
Map(xs, f(_)) == Tuple([i \in 1..Len(xs) |-> f(xs[i])])

\* The outcome of a loop over outcomes: its first exception, or the values.
All(rs) == IF AnyRaise(rs) THEN FirstRaise(rs) ELSE Return(Vals(rs))

Min(a, b) == IF a <= b THEN a ELSE b

Last(s) == s[Len(s)]

RECURSIVE Flatten(_)
Flatten(ss) == IF Len(ss) = 0 THEN <<>> ELSE Head(ss) \o Flatten(Tail(ss))

(***************************************************************************)
(* Strings: str.startswith, str.strip, str.split, `x in s`.                *)
(***************************************************************************)
Q == "\""

Whitespace == {" ", "\n"}

startswith(s, c) == Len(s) > 0 /\ s[1] = c

\* tag.endswith(name), name being one lexeme
endswith(s, c) == Len(s) > 0 /\ s[Len(s)] = c

RECURSIVE lstrip(_, _)
lstrip(s, chars) == IF Len(s) > 0 /\ s[1] \in chars THEN lstrip(Tail(s), chars) ELSE s

RECURSIVE rstrip(_, _)
rstrip(s, chars) ==
    IF Len(s) > 0 /\ s[Len(s)] \in chars THEN rstrip(SubSeq(s, 1, Len(s) - 1), chars) ELSE s

\* s.strip(chars); s.strip() is strip(s, Whitespace)
strip(s, chars) == rstrip(lstrip(s, chars), chars)

Contains(s, lexeme) == \E i \in 1..Len(s) : s[i] = lexeme

\* The index of the first lexeme of s that is in seps, 0 if there is none.
FirstIndex(s, seps) ==
    IF \E i \in 1..Len(s) : s[i] \in seps
    THEN CHOOSE i \in 1..Len(s) : s[i] \in seps /\ \A j \in 1..(i - 1) : s[j] \notin seps
    ELSE 0

\* s.split(sep): the pieces between the separators, empty pieces kept.
RECURSIVE split(_, _)
split(s, seps) ==
    IF FirstIndex(s, seps) = 0 THEN <<s>>
    ELSE <<SubSeq(s, 1, FirstIndex(s, seps) - 1)>>
         \o split(SubSeq(s, FirstIndex(s, seps) + 1, Len(s)), seps)

NonEmpty(s) == Len(s) > 0

\* s.split(): split on runs of whitespace, no empty pieces.
split_ws(s) == SelectSeq(split(s, Whitespace), NonEmpty)

\* sep.join(parts)
RECURSIVE join(_, _)
join(parts, sep) ==
    IF Len(parts) = 0 THEN <<>>
    ELSE IF Len(parts) = 1 THEN parts[1]
    ELSE parts[1] \o <<sep>> \o join(Tail(parts), sep)

(***************************************************************************)
(* The library functions parse_bound relies on, on the atoms drawn here    *)
(* (Python >= 3.11: the test suite parses a "Z" suffix, which              *)
(* datetime.fromisoformat accepts from 3.11 on, as it does the basic       *)
(* format YYYYMMDD).                                                       *)
(***************************************************************************)
Naive == "naive"
UTC == "+00:00"

DT(y, mo, d, h, mi, s, us, tz) ==
    [y |-> y, mo |-> mo, d |-> d, h |-> h, mi |-> mi, s |-> s, us |-> us, tz |-> tz]

D_Oct5 == DT(2023, 10, 5, 0, 0, 0, 0, Naive)
D_Oct5us == DT(2023, 10, 5, 0, 0, 0, 4, Naive)
D_Oct5utc == DT(2023, 10, 5, 0, 0, 0, 0, UTC)
D_Oct4utc == DT(2023, 10, 4, 14, 48, 0, 0, UTC)
D_Jul1utc == DT(2002, 7, 1, 0, 0, 0, 0, UTC)
D_May1utc == DT(2015, 5, 1, 0, 0, 0, 0, UTC)
D_Oct5time == DT(2023, 10, 5, 20, 23, 10, 50000, Naive)
Plus2 == "+02:00"
D_Jul1 == DT(2002, 7, 1, 0, 0, 0, 0, Naive)
D_Jan1 == DT(2016, 1, 1, 0, 0, 0, 0, Naive)
D_May1plus2 == DT(2015, 5, 1, 1, 0, 0, 0, Plus2)
D_Apr30utc == DT(2015, 4, 30, 23, 0, 0, 0, UTC)

\* datetime.fromisoformat: the strings it accepts, and the value of each.
IsoTable ==
    "2023-10-05" :> D_Oct5 @@
    "20231005" :> D_Oct5 @@
    "2023-10-05 00:00:00" :> D_Oct5 @@
    "2023-10-05 00:00:00.000004" :> D_Oct5us @@
    "2023-10-05 00:00:00+00:00" :> D_Oct5utc @@
    "2023-10-04T14:48:00Z" :> D_Oct4utc @@
    "2023-10-04T14:48:00+00:00" :> D_Oct4utc @@
    "2023-10-04 14:48:00+00:00" :> D_Oct4utc @@
    "2002-07-01T00:00:00.000Z" :> D_Jul1utc @@
    "2015-05-01T00:00:00.000Z" :> D_May1utc @@
    "2002-07-01" :> D_Jul1 @@
    "2016-01-01" :> D_Jan1 @@
    "2015-05-01T01:00:00+02:00" :> D_May1plus2

\* int(): the literals it accepts, and the value of each.
IntTable ==
    "42" :> 42 @@ "-7" :> (0 - 7) @@ "+7" :> 7 @@ "7" :> 7 @@ "0" :> 0 @@ "1_0" :> 10 @@
    "10" :> 10 @@ "20231005" :> 20231005 @@
    "-180" :> (0 - 180) @@ "-90" :> (0 - 90) @@ "90" :> 90 @@ "180" :> 180 @@
    "184" :> 184 @@ "1799" :> 1799 @@ "5" :> 5

\* float(): the literals it accepts (every int literal among them), and the
\* value of each, a float being named by its repr.
FloatTable ==
    "3.14" :> "3.14" @@ "1e5" :> "100000.0" @@ "100000.0" :> "100000.0" @@
    "0.1" :> "0.1" @@ "-0.1" :> "-0.1" @@ "nan" :> "nan" @@ "inf" :> "inf" @@
    "42" :> "42.0" @@ "-7" :> "-7.0" @@ "+7" :> "7.0" @@ "7" :> "7.0" @@ "0" :> "0.0" @@
    "1_0" :> "10.0" @@ "10" :> "10.0" @@ "20231005" :> "20231005.0" @@
    "-180" :> "-180.0" @@ "-90" :> "-90.0" @@ "90" :> "90.0" @@ "180" :> "180.0" @@
    "184" :> "184.0" @@ "1799" :> "1799.0" @@ "42.0" :> "42.0" @@ "5" :> "5.0"

\* A string of one atom is looked up; a string with a quote inside, or the
\* empty string, is no literal of any kind,
Accepts(table, s) == Len(s) = 1 /\ s[1] \in DOMAIN table

\* but for datetime.fromisoformat, which takes any one character between a
\* date and a time: 20231005 after a date is the time 20:23:10.05.
IsoDateAndTime(s) ==
    Len(s) = 3 /\ s[1] \in {"2023-10-05", "20231005"} /\ s[2] = Q /\ s[3] = "20231005"

IsIso(s) == Accepts(IsoTable, s) \/ IsoDateAndTime(s)

IsoValue(s) == IF IsoDateAndTime(s) THEN D_Oct5time ELSE IsoTable[s[1]]

fromisoformat(s) ==
    IF IsIso(s) THEN Return(DateV(IsoValue(s))) ELSE Raise("ValueError", s)

int(s) ==
    IF Accepts(IntTable, s) THEN Return(IntV(IntTable[s[1]]))
    ELSE Raise("ValueError", <<"invalid literal for int() with base 10: ", "'">> \o s \o <<"'">>)

\* float(x): a TypeError for None, a ValueError for a string that is no literal
float(x) ==
    IF x = None
    THEN Raise("TypeError",
               <<"float() argument must be a string or a real number, not 'NoneType'">>)
    ELSE IF Accepts(FloatTable, x.v) THEN Return(FloatV(FloatTable[x.v[1]]))
    ELSE Raise("ValueError", x.v)

\* repr(x), as the message of a KeyError or of int() shows it
repr(x) == IF x = None THEN <<"None">> ELSE <<"'">> \o x.v \o <<"'">>

\* Python's ==, on bounds: NaN equals nothing, itself included.
PyEq(a, b) == a = b /\ ~(a.kind = "float" /\ a.v = "nan")

(***************************************************************************)
(* parse_bound and parse_bounds_list.                                      *)
(***************************************************************************)
FailedParsingBound(b) ==
    Raise(WCSClientException, <<"Failed parsing bound '">> \o b \o <<"'">>)

parse_bound_cascade_FloatBeforeInt(is_string, b) ==
    OrElse(fromisoformat(b),
           IF is_string THEN Return(Str(b))
           ELSE OrElse(float(Str(b)), OrElse(int(b), FailedParsingBound(b))))

parse_bound_cascade_IntBeforeDate(is_string, b) ==
    IF is_string THEN OrElse(fromisoformat(b), Return(Str(b)))
    ELSE OrElse(int(b), OrElse(fromisoformat(b),
                               OrElse(float(Str(b)), FailedParsingBound(b))))

\* The try/except cascade of parse_bound, on the token b without its
\* double quotes: a timestamp, else the text if quoted, else an int, else
\* a float, else the exception.
parse_bound_cascade(is_string, b) ==
    OrElse(fromisoformat(b),
           IF is_string THEN Return(Str(b))
           ELSE OrElse(int(b), OrElse(float(Str(b)), FailedParsingBound(b))))

parse_bound(bound) ==
    IF bound = None THEN Return(None)
    ELSE parse_bound_cascade(startswith(bound.v, Q), strip(bound.v, {Q}))

parse_bounds_list(element_text) ==
    IF element_text = None THEN Return(<<>>)
    ELSE All(Map(split_ws(element_text.v), LAMBDA bnd : parse_bound(Str(bnd))))

(***************************************************************************)
(* str(bound) and _bound_to_str(bound), on the values drawn here.          *)
(***************************************************************************)
\* str(int)
IntRepr ==
    42 :> "42" @@ (0 - 7) :> "-7" @@ 0 :> "0" @@ 10 :> "10" @@ 20231005 :> "20231005"

\* str(datetime), which is datetime.isoformat(sep=' ')
DateRepr ==
    D_Oct5 :> "2023-10-05 00:00:00" @@
    D_Oct5us :> "2023-10-05 00:00:00.000004" @@
    D_Oct5utc :> "2023-10-05 00:00:00+00:00" @@
    D_Oct4utc :> "2023-10-04 14:48:00+00:00"

\* datetime.isoformat()
IsoFormat ==
    D_Oct5 :> "2023-10-05T00:00:00" @@
    D_Oct5us :> "2023-10-05T00:00:00.000004" @@
    D_Oct5utc :> "2023-10-05T00:00:00+00:00" @@
    D_Oct4utc :> "2023-10-04T14:48:00+00:00"

\* datetime.strftime("%Y-%m-%d")
StrfDate ==
    D_Oct5 :> "2023-10-05" @@ D_Oct5us :> "2023-10-05" @@
    D_Oct5utc :> "2023-10-05" @@ D_Oct4utc :> "2023-10-04"

str(value) ==
    CASE value.kind = "int" -> Str(<<IntRepr[value.v]>>)
      [] value.kind = "float" -> Str(<<value.v>>)
      [] value.kind = "datetime" -> Str(<<DateRepr[value.v]>>)
      [] value.kind = "str" -> value

bound_to_str(bound) ==
    IF bound.kind = "datetime"
    THEN Str(<<Q,
               IF bound.v.h = 0 /\ bound.v.mi = 0 /\ bound.v.s = 0 THEN StrfDate[bound.v]
               ELSE IsoFormat[bound.v],
               Q>>)
    ELSE str(bound)

(***************************************************************************)
(* urllib.parse.urlparse(url).query and urllib.parse.parse_qs, and         *)
(* crs_to_crs_per_axis.                                                    *)
(***************************************************************************)
\* The part of url before the first lexeme in seps, all of it without one.
Before(url, seps) ==
    IF FirstIndex(url, seps) = 0 THEN url ELSE SubSeq(url, 1, FirstIndex(url, seps) - 1)

\* The part of url after the first lexeme in seps, nothing without one.
After(url, seps) ==
    IF FirstIndex(url, seps) = 0 THEN <<>>
    ELSE SubSeq(url, FirstIndex(url, seps) + 1, Len(url))

\* The query of a URL: what follows the first '?', without the fragment.
url_query(url) == After(Before(url, {"#"}), {"?"})

\* parse_qsl: the name=value fields of a query, in order; a field without
\* '=' or with a blank value is dropped (keep_blank_values is off).  The
\* percent-decoding of names and values changes none of the lexemes here.
qsl_keep(field) == Len(After(field, {"="})) > 0

qsl_pair(field) == [name |-> Before(field, {"="}), value |-> After(field, {"="})]

parse_qsl(qs) == Map(SelectSeq(split(qs, {"&"}), qsl_keep), qsl_pair)

\* The dict parse_qs makes of the pairs: from each name to the list of its
\* values, the names in the order of their first occurrence (as a dict
\* iterates).
qs_dict(pairs) ==
    LET first(i) == \A j \in 1..(i - 1) : pairs[j].name # pairs[i].name
        RECURSIVE keys(_)
        keys(i) == IF i > Len(pairs) THEN <<>>
                   ELSE (IF first(i) THEN <<pairs[i].name>> ELSE <<>>) \o keys(i + 1)
        RECURSIVE values(_, _)
        values(name, i) ==
            IF i > Len(pairs) THEN <<>>
            ELSE (IF pairs[i].name = name THEN <<pairs[i].value>> ELSE <<>>)
                 \o values(name, i + 1)
        item(name) == [name |-> name, value |-> values(name, 1)]
    IN  Map(keys(1), item)

parse_qs(qs) == qs_dict(parse_qsl(qs))

\* [crs for value in query_params.values() for crs in value]
dict_values(query_params) ==
    Flatten(Tuple([k \in 1..Len(query_params) |-> query_params[k].value]))

\* for each crs: [crs, crs] if 'EPSG' in crs, else [crs]
double_epsg_Never(crss) == crss

double_epsg(crss) ==
    Flatten(Tuple([i \in 1..Len(crss) |->
        IF Contains(crss[i].v, "EPSG") THEN <<crss[i], crss[i]>> ELSE <<crss[i]>>]))

crs_to_crs_per_axis(crs) ==
    IF crs = None THEN <<>>
    ELSE double_epsg(IF Contains(crs.v, "crs-compound")
                     THEN Map(dict_values(parse_qs(url_query(crs.v))), Str)
                     ELSE <<crs>>)

(***************************************************************************)
(* Crs.to_short_notation (wcs/model.py).                                   *)
(***************************************************************************)
\* The lexemes drawn here that urlparse takes for a scheme: with their
\* colon, and (a letter, then letters and digits) ahead of a colon.
Schemes == {"http:", "https:"}
SchemeWords == {"EPSG", "OGC"}

without_scheme(url) ==
    IF Len(url) > 0 /\ url[1] \in Schemes THEN Tail(url)
    ELSE IF Len(url) > 1 /\ url[2] = ":" /\ url[1] \in SchemeWords
    THEN SubSeq(url, 3, Len(url))
    ELSE url

\* url from the lexeme of seps on that follows the leading '//'
from_next(url, seps) ==
    IF FirstIndex(SubSeq(url, 3, Len(url)), seps) = 0 THEN <<>>
    ELSE SubSeq(url, 2 + FirstIndex(SubSeq(url, 3, Len(url)), seps), Len(url))

without_netloc(url) ==
    IF Len(url) > 1 /\ url[1] = "/" /\ url[2] = "/" THEN from_next(url, {"/", "?", "#"})
    ELSE url

\* urlparse(url).path
url_path(url) == Before(without_netloc(without_scheme(url)), {"?", "#"})

\* '/crs-compound' in url
has_crs_compound(url) ==
    \E i \in 1..(Len(url) - 1) : url[i] = "/" /\ url[i + 1] = "crs-compound"

short_of_parts_KeepVersion(parts) ==
    IF Len(parts) > 2
    THEN Return(Str(parts[Len(parts) - 2] \o <<":">> \o parts[Len(parts) - 1]
                    \o <<":">> \o parts[Len(parts)]))
    ELSE Return(None)

\* authority:code or authority:version:code of the last three parts
short_of_parts(parts) ==
    IF Len(parts) > 2
    THEN IF parts[Len(parts) - 1] = <<"0">>
         THEN Return(Str(parts[Len(parts) - 2] \o <<":">> \o parts[Len(parts)]))
         ELSE Return(Str(parts[Len(parts) - 2] \o <<":">> \o parts[Len(parts) - 1]
                         \o <<":">> \o parts[Len(parts)]))
    ELSE Return(None)

\* '+'.join(ret): a TypeError at the first item that is None
plus_join(ret) ==
    IF \E i \in 1..Len(ret) : ret[i] = None
    THEN Raise("TypeError",
               <<"sequence item ",
                 ToString((CHOOSE i \in 1..Len(ret) :
                              ret[i] = None /\ \A j \in 1..(i - 1) : ret[j] # None) - 1),
                 ": expected str instance, NoneType found">>)
    ELSE Return(Str(join(Map(ret, LAMBDA s : s.v), "+")))

RECURSIVE to_short_notation(_)
to_short_notation(url) ==
    IF url = None THEN Return(None)
    ELSE IF ~Contains(url.v, "/") THEN Return(url)
    ELSE IF has_crs_compound(url.v)
    THEN Then(All(Map(dict_values(parse_qs(url_query(url.v))),
                      LAMBDA subcrs : to_short_notation(Str(subcrs)))),
              plus_join)
    ELSE short_of_parts(split(strip(url_path(url.v), {"/"}), {"/"}))

(***************************************************************************)
(* XML elements (xml.etree.ElementTree.Element): tag, attrib, text and the *)
(* children in document order.  A tag is "{namespace}local" or "local".    *)
(***************************************************************************)
Element(tag, attrib, text, children) ==
    [kind |-> "Element", tag |-> tag, attrib |-> attrib, text |-> text,
     children |-> children]

\* element.get(name)
get(element, name) ==
    IF name \in DOMAIN element.attrib THEN element.attrib[name] ELSE None

parse_tag_name(element) == Last(split(element.tag, {"}"}))

HasTag(element, tag) == parse_tag_name(element) = tag

validate_tag_name_Never(element, expected_tag) == Return(None)

validate_tag_name(element, expected_tag) ==
    IF ~HasTag(element, expected_tag)
    THEN Raise(WCSClientException,
               <<"Expected a ">> \o expected_tag \o <<" element, but got ">>
               \o parse_tag_name(element))
    ELSE Return(None)

\* first_child(element, expected_tag), expected_tag a Str or None
first_child(element, expected_tag) ==
    IF Len(element.children) = 0
    THEN Raise(WCSClientException,
               <<"Element ">> \o parse_tag_name(element) \o <<" has no child element.">>)
    ELSE IF expected_tag = None THEN Return(element.children[1])
    ELSE Then(validate_tag_name(element.children[1], expected_tag.v),
              LAMBDA ok : Return(element.children[1]))

\* The index of the first child of cs satisfying hit, 0 if there is none.
FirstIndexOf(cs, hit(_)) ==
    IF \E i \in 1..Len(cs) : hit(cs[i])
    THEN CHOOSE i \in 1..Len(cs) : hit(cs[i]) /\ \A j \in 1..(i - 1) : ~hit(cs[j])
    ELSE 0

\* The index of the last child of cs satisfying hit, 0 if there is none.
LastIndex(cs, hit(_)) ==
    IF \E i \in 1..Len(cs) : hit(cs[i])
    THEN CHOOSE i \in 1..Len(cs) : hit(cs[i]) /\ \A j \in (i + 1)..Len(cs) : ~hit(cs[j])
    ELSE 0

\* cs[i], None for i = 0
ChildAt(cs, i) == IF i = 0 THEN None ELSE cs[i]

\* The last child of element with the tag, None without one: what a loop
\* over the children that assigns on this tag sees last.
last_child(element, tag) ==
    ChildAt(element.children, LastIndex(element.children, LAMBDA c : HasTag(c, tag)))

\* child.text, None for no child
text_of(child) == IF child = None THEN None ELSE child.text

\* child.get(name), None for no child
get_of(child, name) == IF child = None THEN None ELSE get(child, name)

get_child(element, tag, throw_if_not_found) ==
    IF FirstIndexOf(element.children, LAMBDA c : HasTag(c, tag)) # 0
    THEN Return(element.children[FirstIndexOf(element.children, LAMBDA c : HasTag(c, tag))])
    ELSE IF throw_if_not_found
    THEN Raise(WCSClientException,
               <<"No element ">> \o tag \o <<" found under element ">>
               \o parse_tag_name(element))
    ELSE Return(None)

\* ET.tostring(element): it is only ever quoted in an error message.
element_to_string(element) == <<"<">> \o element.tag \o <<" ...>">>

(***************************************************************************)
(* The domain model: Axis and BoundingBox (wcs/model.py).                  *)
(***************************************************************************)
Axis_SwapLowHigh(name, low, high, crs, uom, resolution, coefficients) ==
    [kind |-> "Axis", name |-> name, low |-> high, high |-> low, crs |-> crs,
     uom |-> uom, resolution |-> resolution, coefficients |-> coefficients]

Axis(name, low, high, crs, uom, resolution, coefficients) ==
    [kind |-> "Axis", name |-> name, low |-> low, high |-> high, crs |-> crs,
     uom |-> uom, resolution |-> resolution, coefficients |-> coefficients]

\* Axis.is_temporal(): isinstance(self.low, datetime)
is_temporal(self) == self.low.kind = "datetime"

\* Axis.is_irregular()
is_irregular(self) == self.coefficients # None /\ Len(self.coefficients.v) > 0

is_regular_NotIrregular(self) == ~is_irregular(self)

\* Axis.is_regular()
is_regular(self) == self.resolution # None

(***************************************************************************)
(* Coordinates: the comparison a <= b and the sum a + b of Python, on the  *)
(* numbers and timestamps drawn.                                           *)
(***************************************************************************)
\* A number in hundredths: an int, and a float by its repr.
FloatNum ==
    "-0.1" :> (0 - 10) @@ "0.1" :> 10 @@ "3.14" :> 314 @@ "5.0" :> 500 @@ "7.0" :> 700 @@
    "10.0" :> 1000 @@ "15.0" :> 1500 @@ "42.0" :> 4200

FloatOf == 500 :> "5.0" @@ 700 :> "7.0" @@ 1000 :> "10.0" @@ 1500 :> "15.0" @@ 4200 :> "42.0"

is_number(x) == x.kind \in {"int", "float"}

num(x) == IF x.kind = "int" THEN 100 * x.v ELSE FloatNum[x.v]

\* type(x).__name__
type_name(x) ==
    CASE x.kind = "None" -> "NoneType"
      [] x.kind = "datetime" -> "datetime.datetime"
      [] OTHER -> x.kind

\* datetime.astimezone(timezone.utc), on the aware timestamps drawn
to_utc(d) == IF d = D_May1plus2 THEN D_Apr30utc ELSE d

dt_fields(d) == <<d.y, d.mo, d.d, d.h, d.mi, d.s, d.us>>

RECURSIVE lex_le(_, _)
lex_le(a, b) ==
    IF Len(a) = 0 THEN TRUE
    ELSE IF a[1] # b[1] THEN a[1] < b[1]
    ELSE lex_le(Tail(a), Tail(b))

\* a <= b of two timestamps: aware ones are compared as instants
datetime_le(a, b) ==
    IF (a.tz = Naive) # (b.tz = Naive)
    THEN Raise("TypeError", <<"can't compare offset-naive and offset-aware datetimes">>)
    ELSE Return(lex_le(dt_fields(to_utc(a)), dt_fields(to_utc(b))))

\* a <= b
le(a, b) ==
    IF is_number(a) /\ is_number(b) THEN Return(num(a) <= num(b))
    ELSE IF a.kind = "datetime" /\ b.kind = "datetime" THEN datetime_le(a.v, b.v)
    ELSE Raise("TypeError", <<"'<=' not supported between instances of '", type_name(a),
                              "' and '", type_name(b), "'">>)

\* a + b
add(a, b) ==
    IF a.kind = "int" /\ b.kind = "int" THEN Return(IntV(a.v + b.v))
    ELSE IF is_number(a) /\ is_number(b) THEN Return(FloatV(FloatOf[num(a) + num(b)]))
    ELSE Raise("TypeError", <<"unsupported operand type(s) for +=: '", type_name(a),
                              "' and '", type_name(b), "'">>)

\* datetime.replace(tzinfo=tz)
replace_tzinfo(d, tz) == DateV([d.v EXCEPT !.tz = tz])

(***************************************************************************)
(* Axis.get_coefficients and Axis.__getitem__ (wcs/model.py).              *)
(***************************************************************************)
\* self.name as an f-string shows it
axis_name(self) == IF self.name = None THEN <<"None">> ELSE self.name.v

\* The loop never ends: no value is returned and no exception raised.
Diverges == [kind |-> "diverges"]

\* current, current + resolution, ... while current <= high; the list
\* has no end when the resolution does not bring current above high.
RECURSIVE while_le(_, _, _)
while_le(current, high, resolution) ==
    Then(le(current, high), LAMBDA go :
        IF ~go THEN Return(<<>>)
        ELSE IF is_number(current) /\ is_number(resolution) /\ num(resolution) <= 0
        THEN Diverges
        ELSE Then(add(current, resolution), LAMBDA next :
             Then(while_le(next, high, resolution),
                  LAMBDA rest : Return(<<current>> \o rest))))

NotRegularOrIrregular(self) ==
    Raise(WCSClientException,
          axis_name(self) \o <<" is not a regular or irregular axis, cannot calculate coefficients.">>)

get_coefficients(self) ==
    IF is_irregular(self) THEN Return(self.coefficients.v)
    ELSE IF ~is_regular(self) THEN NotRegularOrIrregular(self)
    ELSE while_le(self.low, self.high, self.resolution)

\* start <= c <= stop: stop is not compared when start <= c is false
between(start, c, stop) ==
    Then(le(start, c), LAMBDA first : IF first THEN le(c, stop) ELSE Return(FALSE))

\* [c for c in coefficients if start <= c <= stop]
RECURSIVE filter(_, _)
filter(coefficients, keep) ==
    IF Len(coefficients) = 0 THEN <<>>
    ELSE (IF Head(keep) THEN <<Head(coefficients)>> ELSE <<>>)
         \o filter(Tail(coefficients), Tail(keep))

subset_of(coefficients, start, stop) ==
    Then(All(Map(coefficients, LAMBDA c : between(start, c, stop))),
         LAMBDA keep : Return(PyList(filter(coefficients, keep))))

InvalidType(self, which) ==
    Raise(WCSClientException,
          <<"Invalid type of ", which, " coordinate provided for operator [] on axis ">>
          \o axis_name(self) \o <<", expected either a string or a datetime.">>)

\* a string is parsed, another value must be a timestamp
to_datetime(self, which, value) ==
    IF value.kind = "str" THEN fromisoformat(value.v)
    ELSE IF value.kind # "datetime" THEN InvalidType(self, which)
    ELSE Return(value)

\* start and stop as they are compared: on a temporal axis as timestamps
\* with the tzinfo of the first coefficient
slice_bounds(self, item) ==
    IF is_temporal(self)
    THEN Then(to_datetime(self, "start", item.start), LAMBDA start :
         Then(to_datetime(self, "stop", item.stop), LAMBDA stop :
             Return([start |-> replace_tzinfo(start, self.coefficients.v[1].v.tz),
                     stop |-> replace_tzinfo(stop, self.coefficients.v[1].v.tz)])))
    ELSE Return([start |-> item.start, stop |-> item.stop])

coefficients_between(self, bounds) ==
    IF get_coefficients(self).kind = "diverges" THEN Diverges
    ELSE Then(get_coefficients(self),
              LAMBDA coefficients : subset_of(coefficients, bounds.start, bounds.stop))

\* Axis.__getitem__(item)
Axis_getitem(self, item) ==
    IF item.kind # "slice"
    THEN Raise(WCSClientException,
               <<"Invalid coordinates provided for operator [] on axis ">> \o axis_name(self)
               \o <<", expected a slice of the form start:stop.">>)
    ELSE IF item.stop = None
    THEN Raise(WCSClientException,
               <<"No upper limit provided for operator [] on axis ">> \o axis_name(self) \o <<".">>)
    ELSE IF ~is_regular(self) /\ ~is_irregular(self)
    THEN Raise(WCSClientException,
               <<"operator [] is inapplicable to axis ">> \o axis_name(self)
               \o <<" without a resolution or coefficients.">>)
    ELSE IF is_temporal(self) /\ ~is_irregular(self)
    THEN Raise(WCSClientException,
               <<"operator [] is inapplicable to regular temporal axis ">> \o axis_name(self)
               \o <<".">>)
    ELSE Then(slice_bounds(self, item), LAMBDA bounds : coefficients_between(self, bounds))

(***************************************************************************)
(* BoundingBox (wcs/model.py).                                             *)
(***************************************************************************)
BoundingBox(axes, crs) == [kind |-> "BoundingBox", axes |-> axes, crs |-> crs]

\* lst[index] of a Python list: a negative index counts from the end
list_getitem(lst, index) ==
    IF 0 <= index /\ index < Len(lst) THEN Return(lst[index + 1])
    ELSE IF 0 - Len(lst) <= index /\ index < 0 THEN Return(lst[Len(lst) + index + 1])
    ELSE Raise("IndexError", <<"list index out of range">>)

\* isinstance(index, int): a bool is an int, False is 0 and True is 1
is_int(index) == index.kind \in {"int", "bool"}

as_int(index) == IF index.kind = "bool" THEN (IF index.v THEN 1 ELSE 0) ELSE index.v

\* index.__class__ as an f-string shows it
class_of(index) ==
    CASE index.kind = "None" -> "<class 'NoneType'>"
      [] index.kind = "float" -> "<class 'float'>"
      [] OTHER -> "<class '" \o index.kind \o "'>"

\* the first of the items whose name is index, None without one
first_named(items, index) ==
    IF \E i \in 1..Len(items) : items[i].name = index
    THEN items[CHOOSE i \in 1..Len(items) :
                  /\ items[i].name = index
                  /\ \A j \in 1..(i - 1) : items[j].name # index]
    ELSE None

\* ', '.join([item.name for item in items])
names_of(items) == join(Tuple([i \in 1..Len(items) |-> items[i].name.v]), ", ")

\* BoundingBox.__getitem__(index)
BoundingBox_getitem(self, index) ==
    IF is_int(index) THEN list_getitem(self.axes, as_int(index))
    ELSE IF index.kind = "str"
    THEN IF first_named(self.axes, index) # None THEN Return(first_named(self.axes, index))
         ELSE Raise("KeyError", <<"Axis '">> \o index.v
                                \o <<"' not found in the BoundingBox axes: ">>
                                \o names_of(self.axes))
    ELSE Raise("KeyError", <<"Axis index has an invalid type ", class_of(index),
                             ",expected a string or int.">>)

(***************************************************************************)
(* parse_bounding_box and parse_wgs84_bounding_box.                        *)
(***************************************************************************)
IsLowerCorner(e) == HasTag(e, <<"LowerCorner">>)
IsUpperCorner(e) == HasTag(e, <<"UpperCorner">>)

\* One turn of the loop over the children: the bounds of a corner.
corner_bounds(e) ==
    IF IsLowerCorner(e) \/ IsUpperCorner(e) THEN parse_bounds_list(e.text)
    ELSE Return(<<>>)

\* tag after the loop, which assigns it: the tag of the last child, of
\* the element itself without children.
tag_after_loop(bbox_element) ==
    IF Len(bbox_element.children) = 0 THEN parse_tag_name(bbox_element)
    ELSE parse_tag_name(Last(bbox_element.children))

\* zip(ll, ur, axis_crss): as many triples as the shortest of the three.
zip3_len(ll, ur, axis_crss) == Min(Len(ll), Min(Len(ur), Len(axis_crss)))

zip_axes(ll, ur, axis_crss) ==
    Tuple([i \in 1..zip3_len(ll, ur, axis_crss) |->
        Axis(Str(<<>>), ll[i], ur[i], axis_crss[i], None, None, None)])

\* parse_bounding_box after its loop: bounds[i] are the bounds of child i,
\* l and u the last LowerCorner and UpperCorner (0: none).
bounding_box_of(bbox_element, bounds, l, u, crs) ==
    IF l = 0
    THEN Raise(WCSClientException,
               <<"Failed parsing ">> \o tag_after_loop(bbox_element)
               \o <<"/LowerCorner element.">>)
    ELSE IF u = 0
    THEN Raise(WCSClientException,
               <<"Failed parsing ">> \o tag_after_loop(bbox_element)
               \o <<"/UpperCorner element.">>)
    ELSE IF crs = None
    THEN Raise(WCSClientException,
               <<"Failed parsing CRS from XML element:", "\n">>
               \o element_to_string(bbox_element))
    ELSE Return(BoundingBox(zip_axes(bounds[l], bounds[u], crs_to_crs_per_axis(crs)), crs))

parse_bounding_box(bbox_element, crs_arg) ==
    IF bbox_element = None THEN Return(None)
    ELSE Then(All(Map(bbox_element.children, corner_bounds)),
              LAMBDA bounds :
                  bounding_box_of(bbox_element, bounds,
                                  LastIndex(bbox_element.children, IsLowerCorner),
                                  LastIndex(bbox_element.children, IsUpperCorner),
                                  IF crs_arg = None THEN get(bbox_element, "crs")
                                  ELSE crs_arg))

\* parse_wgs84_bounding_box on the axes of the bounding box
lon_lat_of(axes) ==
    IF Len(axes) # 2
    THEN Raise(WCSClientException,
               <<"Expected a WGS84BoundingBox element bounds for lon/lat axes, but got ",
                 ToString(Len(axes)), " bounds">>)
    ELSE Return(PyTuple(<<[axes[1] EXCEPT !.name = Str(<<"Lon">>)],
                          [axes[2] EXCEPT !.name = Str(<<"Lat">>)]>>))

parse_wgs84_bounding_box(element) ==
    IF element = None THEN Return(None)
    ELSE Then(validate_tag_name(element, <<"WGS84BoundingBox">>),
              LAMBDA ok :
                  Then(parse_bounding_box(element, Str(<<"EPSG", ":", "4326">>)),
                       LAMBDA bbox : lon_lat_of(bbox.axes)))

(***************************************************************************)
(* parse_domain_set.                                                       *)
(***************************************************************************)
\* {name: index for index, name in enumerate(axis_labels.split())}[name]:
\* the index of the last label equal to name, -1 standing for a KeyError.
name_to_index(labels, name) ==
    IF name # None /\ \E i \in 1..Len(labels) : labels[i] = name.v
    THEN (CHOOSE i \in 1..Len(labels) :
             labels[i] = name.v /\ \A j \in (i + 1)..Len(labels) : labels[j] # name.v) - 1
    ELSE 0 - 1

\* key=lambda axis: name_to_index[axis.name], on one axis
axis_key(labels, axis) ==
    IF name_to_index(labels, axis.name) < 0 THEN Raise("KeyError", repr(axis.name))
    ELSE Return(name_to_index(labels, axis.name))

sorted_NoSort(items, keys) == items

\* sorted(items, key=...): keys[i] is the key of items[i]; the sort is
\* stable, an item going behind the items whose key is not larger.
sorted(items, keys) ==
    LET RECURSIVE ins(_, _)
        ins(done, x) ==
            IF Len(done) = 0 \/ keys[Last(done)] <= keys[x] THEN Append(done, x)
            ELSE Append(ins(SubSeq(done, 1, Len(done) - 1), x), Last(done))
        RECURSIVE order(_)
        order(k) == IF k = 0 THEN <<>> ELSE ins(order(k - 1), k)
        at(i) == items[i]
    IN  Map(order(Len(items)), at)

set_axis_crs_Never(geo_axes, axis_crss) == geo_axes

\* for axis, axis_crs in zip(geo_axes, axis_crss): axis.crs = axis_crs
set_axis_crs(geo_axes, axis_crss) ==
    Tuple([i \in 1..Len(geo_axes) |->
        IF i <= Len(axis_crss) THEN [geo_axes[i] EXCEPT !.crs = axis_crss[i]]
        ELSE geo_axes[i]])

\* What one child of GeneralGrid appends to geo_axes and to grid_axes.
NoAxes == [geo |-> <<>>, grid |-> <<>>]

\* try: resolution = float(resolution) / except ValueError: pass
float_or_same(resolution) ==
    IF IsRaise(float(resolution)) /\ float(resolution).exc = "ValueError"
    THEN Return(resolution)
    ELSE float(resolution)

regular_axis(axis_element) ==
    Then(float_or_same(get(axis_element, "resolution")), LAMBDA resolution :
    Then(parse_bound(get(axis_element, "lowerBound")), LAMBDA low :
    Then(parse_bound(get(axis_element, "upperBound")), LAMBDA high :
        Return([NoAxes EXCEPT !.geo =
            <<Axis(get(axis_element, "axisLabel"), low, high, None,
                   get(axis_element, "uomLabel"), resolution, None)>>]))))

\* Axis(name, low=coefficients[0], high=coefficients[-1], ...)
coefficients_axis(axis_element, coefficients) ==
    IF Len(coefficients) = 0 THEN Raise("IndexError", <<"list index out of range">>)
    ELSE Return([NoAxes EXCEPT !.geo =
             <<Axis(get(axis_element, "axisLabel"), coefficients[1], Last(coefficients),
                    None, get(axis_element, "uomLabel"), None, PyList(coefficients))>>])

irregular_axis(axis_element) ==
    Then(All(Map(axis_element.children, LAMBDA c : parse_bound(c.text))),
         LAMBDA coefficients : coefficients_axis(axis_element, coefficients))

index_axis(index_axis_element) ==
    Then(parse_bound(get(index_axis_element, "lowerBound")), LAMBDA low :
    Then(parse_bound(get(index_axis_element, "upperBound")), LAMBDA high :
        Return(Axis(get(index_axis_element, "axisLabel"), low, high,
                    None, None, IntV(1), None))))

grid_limits(axis_element) ==
    Then(All(Map(axis_element.children, index_axis)),
         LAMBDA axes : Return([NoAxes EXCEPT !.grid = axes]))

\* One turn of the loop over the children of GeneralGrid: the axes the
\* child adds to geo_axes and to grid_axes, or the exception it raises.
axis_step(axis_element) ==
    IF HasTag(axis_element, <<"RegularAxis">>) THEN regular_axis(axis_element)
    ELSE IF HasTag(axis_element, <<"IrregularAxis">>) THEN irregular_axis(axis_element)
    ELSE IF HasTag(axis_element, <<"GridLimits">>) THEN grid_limits(axis_element)
    ELSE Return(NoAxes)

\* parse_domain_set after its loop over the axes: the sort by axisLabels,
\* the CRS of each axis, and the two bounding boxes.
sort_geo_axes(geo_axes, grid_axes, axis_labels, crs) ==
    IF axis_labels = None
    THEN Raise(WCSClientException, <<"GeneralGrid element missing axisLabels attribute.">>)
    ELSE Then(All(Map(geo_axes, LAMBDA axis : axis_key(split_ws(axis_labels.v), axis))),
              LAMBDA keys :
                  Return(PyTuple(<<
                      BoundingBox(set_axis_crs(sorted(geo_axes, keys),
                                               crs_to_crs_per_axis(crs)), crs),
                      BoundingBox(grid_axes, None)>>)))

general_grid_axes(general_grid) ==
    Then(All(Map(general_grid.children, axis_step)),
         LAMBDA steps :
             sort_geo_axes(Flatten(Map(steps, LAMBDA step : step.geo)),
                           Flatten(Map(steps, LAMBDA step : step.grid)),
                           get(general_grid, "axisLabels"), get(general_grid, "srsName")))

parse_domain_set(domain_set_element) ==
    IF domain_set_element = None THEN Return(PyTuple(<<None, None>>))
    ELSE Then(validate_tag_name(domain_set_element, <<"DomainSet">>),
              LAMBDA ok :
                  Then(first_child(domain_set_element, Str(<<"GeneralGrid">>)),
                       general_grid_axes))

(***************************************************************************)
(* parse_range_type.                                                       *)
(***************************************************************************)
NilValue(nil_value, reason) ==
    [kind |-> "NilValue", nil_value |-> nil_value, reason |-> reason]

Field(name, is_quantity, definition, label, description, codespace, uom, nil_values) ==
    [kind |-> "Field", name |-> name, is_quantity |-> is_quantity,
     definition |-> definition, label |-> label, description |-> description,
     codespace |-> codespace, uom |-> uom, nil_values |-> nil_values]

RangeType(fields) == [kind |-> "RangeType", fields |-> fields]

\* f'{value}' of a string or of None
format_value(value) == IF value = None THEN <<"None">> ELSE value.v

\* NilValue.__str__, as str(item) calls it
NilValue_str(self) ==
    IF self.reason # None /\ Len(self.reason.v) > 0
    THEN IF self.nil_value = None
         THEN Raise("TypeError", <<"unsupported operand type(s) for +=: 'NoneType' and 'str'">>)
         ELSE Return(Str(self.nil_value.v \o <<": ">> \o self.reason.v))
    ELSE IF self.nil_value = None
         THEN Raise("TypeError", <<"__str__ returned non-string (type NoneType)">>)
         ELSE Return(self.nil_value)

\* sep.join([str(item) for item in lst])
list_to_str(lst, sep) ==
    Then(All(Map(lst.v, NilValue_str)),
         LAMBDA items : Return(Str(join([i \in 1..Len(items) |-> items[i].v], sep))))

\* ret += f'{indent}type: ' + 'Quantity' if self.is_quantity else 'Category':
\* the conditional expression takes the whole sum as its first branch.
type_line(self, indent) ==
    IF self.is_quantity THEN indent \o <<"type: ">> \o <<"Quantity">> ELSE <<"Category">>

\* The line of an attribute that is set, nothing for one that is not.
line_if(is_set, indent, title, value) ==
    IF is_set THEN indent \o <<title>> \o value ELSE <<>>

\* Field.__str__
Field_str(self) ==
    LET indent == <<"\n", "    ">>
        indent2 == indent \o <<"  ">>
        has_nil_values == self.nil_values # None /\ Len(self.nil_values.v) > 0
    IN  Then(IF has_nil_values THEN list_to_str(self.nil_values, ",") ELSE Return(Str(<<>>)),
             LAMBDA nil_values :
                 Return(Str(indent \o format_value(self.name) \o <<":">>
                            \o type_line(self, indent2)
                            \o line_if(self.label # None, indent2, "label: ",
                                       format_value(self.label))
                            \o line_if(self.description # None, indent2, "description: ",
                                       format_value(self.description))
                            \o line_if(self.definition # None, indent2, "definition: ",
                                       format_value(self.definition))
                            \o line_if(has_nil_values, indent2, "nil values: ", nil_values.v)
                            \o line_if(self.codespace # None, indent2, "codespace: ",
                                       format_value(self.codespace))
                            \o line_if(self.uom # None, indent2, "uom: ",
                                       format_value(self.uom)))))

\* RangeType.__getitem__(index)
RangeType_getitem(self, index) ==
    IF is_int(index) THEN list_getitem(self.fields, as_int(index))
    ELSE IF index.kind = "str"
    THEN IF first_named(self.fields, index) # None THEN Return(first_named(self.fields, index))
         ELSE Raise("KeyError", <<"Field '">> \o index.v
                                \o <<"' not found in the RangeType fields: ">>
                                \o names_of(self.fields))
    ELSE Raise("KeyError", <<"Field index has an invalid type ", class_of(index),
                             ",expected a string or int.">>)

\* field.nil_values, as the nilValues element c sets it
nil_values_of(c) ==
    Then(first_child(c, None),
         LAMBDA nil_values_element :
             Return(PyList(IF HasTag(nil_values_element, <<"NilValues">>)
                           THEN Map(nil_values_element.children,
                                    LAMBDA nil_value :
                                        NilValue(nil_value.text,
                                                 get(nil_value, "reason")))
                           ELSE <<>>)))

IsNilValues(c) == HasTag(c, <<"nilValues">>)

nil_values_step(c) == IF IsNilValues(c) THEN nil_values_of(c) ELSE Return(None)

\* The Field after the loop over the children of child (a Quantity or a
\* Category): each attribute is set by the last child that sets it;
\* nils[i] is what child i makes of nil_values.
field_of(field_element, child, nils) ==
    Field(get(field_element, "name"),
          HasTag(child, <<"Quantity">>),
          get(child, "definition"),
          text_of(last_child(child, <<"label">>)),
          text_of(last_child(child, <<"description">>)),
          get_of(last_child(child, <<"codeSpace">>), "href"),
          get_of(last_child(child, <<"uom">>), "code"),
          IF LastIndex(child.children, IsNilValues) = 0 THEN None
          ELSE nils[LastIndex(child.children, IsNilValues)])

quantity_field(field_element, child) ==
    Then(All(Map(child.children, nil_values_step)),
         LAMBDA nils : Return(field_of(field_element, child, nils)))

\* One turn of the loop over the children of DataRecord.
parse_field(field_element) ==
    Then(first_child(field_element, None),
         LAMBDA child : quantity_field(field_element, child))

parse_range_type(range_type_element) ==
    IF range_type_element = None THEN Return(None)
    ELSE Then(validate_tag_name(range_type_element, <<"RangeType">>), LAMBDA ok :
         Then(first_child(range_type_element, Str(<<"DataRecord">>)), LAMBDA data_record :
         Then(All(Map(data_record.children, parse_field)), LAMBDA fields :
             Return(RangeType(fields)))))

(***************************************************************************)
(* element_to_dict and parse_metadata.  A dict is a function from its keys *)
(* (strings, as sequences of lexemes) to its values.                       *)
(***************************************************************************)
EmptyDict == PyDict(<<>>)

\* d.get(key, default)
dict_get(d, key, default) == IF key \in DOMAIN d.v THEN d.v[key] ELSE default

collapse_AlwaysList(v) == PyList(v)

\* v[0] if len(v) == 1 else v
collapse(v) == IF Len(v) = 1 THEN v[1] ELSE PyList(v)

\* The value element_to_dict(t) holds under its one key, the tag of t.
RECURSIVE element_to_value(_)
element_to_value(t) ==
    LET children == t.children
        has_attrib == DOMAIN t.attrib # {}
        tags == {parse_tag_name(children[i]) : i \in 1..Len(children)}
        ofTag(k) == SelectSeq(children, LAMBDA c : HasTag(c, k))
        v(k) == Map(ofTag(k), element_to_value)
        from_children == [k \in tags |-> collapse(v(k))]
        from_attrib == [k \in {<<"@", a>> : a \in DOMAIN t.attrib} |-> t.attrib[k[2]]]
        has_text == t.text # None /\ Len(t.text.v) > 0
        text == IF has_text THEN strip(t.text.v, Whitespace) ELSE <<>>
        from_text == IF has_text /\ Len(text) > 0 THEN <<"#text">> :> Str(text) ELSE <<>>
    IN  IF Len(children) > 0 \/ has_attrib
        THEN PyDict(from_text @@ from_attrib @@ from_children)
        ELSE IF has_text THEN Str(text)
        ELSE None

\* '' or None of a leaf, whichever value: None
none_if_blank(value) == IF value.kind = "str" /\ Len(value.v) = 0 THEN None ELSE value

element_to_dict_BlankIsNone(t) == PyDict(parse_tag_name(t) :> none_if_blank(element_to_value(t)))

element_to_dict(t) == PyDict(parse_tag_name(t) :> element_to_value(t))

\* parse_metadata on the dict of the element
metadata_of(d) ==
    IF dict_get(d, <<"Metadata">>, d).kind = "str" /\ dict_get(d, <<"Metadata">>, d).v = <<>>
    THEN Return(EmptyDict)
    ELSE Return(dict_get(d, <<"Metadata">>, d))

parse_metadata_NoneForNone(metadata_element) ==
    IF metadata_element = None THEN Return(None)
    ELSE Then(validate_tag_name(metadata_element, <<"Metadata">>),
              LAMBDA ok : metadata_of(element_to_dict(metadata_element)))

parse_metadata(metadata_element) ==
    IF metadata_element = None THEN Return(EmptyDict)
    ELSE Then(validate_tag_name(metadata_element, <<"Metadata">>),
              LAMBDA ok : metadata_of(element_to_dict(metadata_element)))

(***************************************************************************)
(* parse_additional_parameters, parse_coverage_summary and                 *)
(* parse_coverage_summaries.                                               *)
(***************************************************************************)
IsNeitherNameNorValue(c) == ~HasTag(c, <<"Name">>) /\ ~HasTag(c, <<"Value">>)

\* One turn of the loop over the children of AdditionalParameters: the
\* name and the value of param, or the exception it raises.
parse_additional_parameter(param) ==
    IF ~HasTag(param, <<"AdditionalParameter">>)
    THEN Raise(WCSClientException,
               <<"Unexpected child element of AdditionalParameters: ">>
               \o parse_tag_name(param))
    ELSE IF FirstIndexOf(param.children, IsNeitherNameNorValue) # 0
    THEN Raise(WCSClientException,
               <<"Unexpected child element of AdditionalParameter: ">>
               \o parse_tag_name(
                      param.children[FirstIndexOf(param.children, IsNeitherNameNorValue)]))
    ELSE IF text_of(last_child(param, <<"Name">>)) = None
    THEN Raise(WCSClientException,
               <<"AdditionalParameter element missing a Name child element.">>)
    ELSE IF text_of(last_child(param, <<"Value">>)) = None
    THEN Raise(WCSClientException,
               <<"AdditionalParameter element missing a Value child element.">>)
    ELSE Return([name |-> text_of(last_child(param, <<"Name">>)).v,
                 value |-> text_of(last_child(param, <<"Value">>))])

\* ret[name] = value for each pair in turn: the last value of a name stays
RECURSIVE dict_of(_)
dict_of(pairs) ==
    IF Len(pairs) = 0 THEN <<>>
    ELSE (Last(pairs).name :> Last(pairs).value) @@ dict_of(SubSeq(pairs, 1, Len(pairs) - 1))

parse_additional_parameters(element) ==
    IF element = None THEN Return(EmptyDict)
    ELSE Then(validate_tag_name(element, <<"AdditionalParameters">>), LAMBDA ok :
         Then(All(Map(element.children, parse_additional_parameter)), LAMBDA params :
             Return(PyDict(dict_of(params)))))

BasicCoverage(name, subtype, bbox, lon_lat, size_bytes, additional_params) ==
    [kind |-> "BasicCoverage", name |-> name, subtype |-> subtype, bbox |-> bbox,
     lon |-> lon_lat[1], lat |-> lon_lat[2], size_bytes |-> size_bytes,
     additional_params |-> additional_params]

rename_axes_Never(axis_list, bbox) == bbox

\* for axis_name, axis in zip(axis_list, bbox.axes): axis.name = axis_name
rename_axes(axis_list, bbox) ==
    [bbox EXCEPT !.axes = Tuple([i \in 1..Len(bbox.axes) |->
        IF i <= Len(axis_list) THEN [bbox.axes[i] EXCEPT !.name = Str(axis_list[i])]
        ELSE bbox.axes[i]])]

\* dict.pop(key, None)
pop(d, key) == [k \in DOMAIN d \ {key} |-> d[k]]

\* One turn of the loop over the children of CoverageSummary: what the
\* child parses to, None for a child that is not parsed.
summary_step(e) ==
    IF HasTag(e, <<"WGS84BoundingBox">>) THEN parse_wgs84_bounding_box(e)
    ELSE IF HasTag(e, <<"BoundingBox">>) THEN parse_bounding_box(e, None)
    ELSE IF HasTag(e, <<"AdditionalParameters">>) THEN parse_additional_parameters(e)
    ELSE Return(None)

\* What the loop leaves in a variable: steps[i] of the last child i with
\* the tag, the initial value without one.
last_value(element, steps, tag, initial) ==
    IF LastIndex(element.children, LAMBDA c : HasTag(c, tag)) = 0 THEN initial
    ELSE steps[LastIndex(element.children, LAMBDA c : HasTag(c, tag))]

\* size_bytes after the loop over params.items()
size_bytes_of(params) ==
    IF <<"sizeInBytes">> \in DOMAIN params THEN int(params[<<"sizeInBytes">>].v)
    ELSE Return(None)

\* bbox after the loop that renames its axes
renamed(params, bbox) ==
    IF <<"axisList">> \in DOMAIN params /\ bbox # None
    THEN rename_axes(split(params[<<"axisList">>].v, {","}), bbox)
    ELSE bbox

basic_coverage_of_SizeFirst(name, subtype, lon_lat, bbox, params) ==
    Then(size_bytes_of(params),
         LAMBDA size_bytes :
             IF name = None
             THEN Raise(WCSClientException,
                        <<"CoverageSummary is missing required CoverageId child element.">>)
             ELSE Return(BasicCoverage(name, subtype, renamed(params, bbox), lon_lat,
                                       size_bytes,
                                       PyDict(pop(pop(params, <<"sizeInBytes">>),
                                                  <<"axisList">>)))))

\* parse_coverage_summary after its loop over the children
basic_coverage_of(name, subtype, lon_lat, bbox, params) ==
    IF name = None
    THEN Raise(WCSClientException,
               <<"CoverageSummary is missing required CoverageId child element.">>)
    ELSE Then(size_bytes_of(params),
              LAMBDA size_bytes :
                  Return(BasicCoverage(name, subtype, renamed(params, bbox), lon_lat,
                                       size_bytes,
                                       PyDict(pop(pop(params, <<"sizeInBytes">>),
                                                  <<"axisList">>)))))

parse_coverage_summary(element) ==
    IF element = None THEN Return(None)
    ELSE Then(validate_tag_name(element, <<"CoverageSummary">>), LAMBDA ok :
         Then(All(Map(element.children, summary_step)), LAMBDA steps :
             basic_coverage_of(
                 text_of(last_child(element, <<"CoverageId">>)),
                 text_of(last_child(element, <<"CoverageSubtype">>)),
                 last_value(element, steps, <<"WGS84BoundingBox">>,
                            PyTuple(<<None, None>>)).v,
                 last_value(element, steps, <<"BoundingBox">>, None),
                 last_value(element, steps, <<"AdditionalParameters">>, EmptyDict).v)))

\* The first child of root whose tag ends with name, None without one.
first_ending_with(root, name) ==
    ChildAt(root.children, FirstIndexOf(root.children, LAMBDA c : endswith(c.tag, name)))

contents_summaries_SkipFailed(contents) ==
    IF contents = None
    THEN Raise(WCSClientException,
               <<"Invalid GetCapabilities document: no Contents element found.">>)
    ELSE Return(PyList(Vals(SelectSeq(Map(contents.children, parse_coverage_summary),
                                      LAMBDA r : ~IsRaise(r)))))

\* parse_coverage_summaries on the Contents element it found
contents_summaries(contents) ==
    IF contents = None
    THEN Raise(WCSClientException,
               <<"Invalid GetCapabilities document: no Contents element found.">>)
    ELSE Then(All(Map(contents.children, parse_coverage_summary)),
              LAMBDA ret : Return(PyList(ret)))

\* root is ET.fromstring(xml_string), the document being well-formed
parse_coverage_summaries(root) == contents_summaries(first_ending_with(root, "Contents"))

(***************************************************************************)
(* parse_describe_coverage.                                                *)
(***************************************************************************)
\* bool(value): None, '', {} and [] are false
truthy(value) ==
    CASE value.kind = "None" -> FALSE
      [] value.kind = "str" -> Len(value.v) > 0
      [] value.kind = "dict" -> DOMAIN value.v # {}
      [] value.kind = "list" -> Len(value.v) > 0
      [] OTHER -> TRUE

FullCoverage(name, bbox, grid_bbox, range_type, metadata) ==
    [kind |-> "FullCoverage", name |-> name, bbox |-> bbox, grid_bbox |-> grid_bbox,
     range_type |-> range_type,
     metadata |-> IF truthy(metadata) THEN metadata ELSE EmptyDict]

\* parse_describe_coverage on the CoverageDescription element it found
coverage_description(cov_desc) ==
    IF cov_desc = None
    THEN Raise(WCSClientException,
               <<"Invalid DescribeCoverage document: no CoverageDescription element found.">>)
    ELSE Then(get_child(cov_desc, <<"CoverageId">>, TRUE), LAMBDA coverage_id :
         Then(get_child(cov_desc, <<"Metadata">>, FALSE), LAMBDA metadata_element :
         Then(get_child(cov_desc, <<"DomainSet">>, TRUE), LAMBDA domain_set_element :
         Then(get_child(cov_desc, <<"RangeType">>, TRUE), LAMBDA range_type_element :
         Then(parse_domain_set(domain_set_element), LAMBDA domain_set :
         Then(parse_range_type(range_type_element), LAMBDA range_type :
         Then(parse_metadata(metadata_element), LAMBDA metadata :
             Return(FullCoverage(coverage_id.text, domain_set.v[1], domain_set.v[2],
                                 range_type, metadata)))))))))

\* root is ET.fromstring(xml_string), the document being well-formed
parse_describe_coverage(root) ==
    coverage_description(first_ending_with(root, "CoverageDescription"))

(***************************************************************************)
(* WebCoverageService (wcs/service.py).  A response of the server is its   *)
(* status code and its text; a text that is a well-formed document is      *)
(* given by the element ET.fromstring makes of it, any other text by its   *)
(* characters.                                                             *)
(***************************************************************************)
XmlText(root) == [kind |-> "xml", root |-> root]

Response(status_code, text) == [status_code |-> status_code, text |-> text]

\* ET.fromstring(xml_string)
ET_fromstring(xml_string) ==
    IF xml_string.kind = "xml" THEN Return(xml_string.root)
    ELSE Raise("ParseError", <<"syntax error">>)

\* response.raise_for_status(): HTTPError for a 4xx or 5xx status
raise_for_status(response) ==
    IF 400 <= response.status_code /\ response.status_code < 600
    THEN Raise("HTTPError", <<"Error for url">>)
    ELSE Return(None)

\* The elements below element, in document order.
RECURSIVE descendants(_)
descendants(element) ==
    Flatten(Tuple([i \in 1..Len(element.children) |->
                      <<element.children[i]>> \o descendants(element.children[i])]))

\* namespaces = {'ows': 'http://www.opengis.net/ows/2.0'}
namespaces_ows == <<"{http://www.opengis.net/ows/2.0", "}">>

\* element.findall('.//ows:' + name, namespaces)
findall(element, name) ==
    SelectSeq(descendants(element), LAMBDA c : c.tag = namespaces_ows \o <<name>>)

\* err of one turn of the loop over exceptions
exception_line(ex) ==
    LET ex_code == get(ex, "exceptionCode")
        exception_texts == findall(ex, "ExceptionText")
    IN  IF \E i \in 1..Len(exception_texts) : exception_texts[i].text = None
        THEN Raise("TypeError", <<"can only concatenate str (not \"NoneType\") to str">>)
        ELSE Return(Str((IF ex_code # None THEN ex_code.v \o <<": ">> ELSE <<>>)
                        \o Flatten([i \in 1..Len(exception_texts) |->
                                       exception_texts[i].text.v])))

\* WebCoverageService._parse_error_xml(xml_str)
parse_error_xml(xml_str) ==
    IF xml_str = None THEN Return(None)
    ELSE IF IsRaise(ET_fromstring(xml_str)) THEN Return(xml_str)
    ELSE Then(All(Map(findall(xml_str.root, "Exception"), exception_line)),
              LAMBDA ret : Return(Str(join([i \in 1..Len(ret) |-> ret[i].v], "\n"))))

\* WebCoverageService._send_request(params), response what requests.get returns
send_request(response) ==
    IF IsRaise(raise_for_status(response))
    THEN Then(parse_error_xml(response.text),
              LAMBDA err : IF err # None THEN Raise(WCSClientException, err.v)
                           ELSE raise_for_status(response))
    ELSE Return(response)

\* {cov.name: cov for cov in coverages}: the last coverage of a name stays
dict_by_name(coverages) ==
    PyDict([name \in {coverages[i].name.v : i \in 1..Len(coverages)} |->
               coverages[LastIndex(coverages, LAMBDA cov : cov.name.v = name)]])

\* WebCoverageService.list_coverages()
list_coverages(response) ==
    Then(send_request(response), LAMBDA sent :
    Then(ET_fromstring(sent.text), LAMBDA root :
    Then(parse_coverage_summaries(root), LAMBDA coverages :
        Return(dict_by_name(coverages.v)))))

\* WebCoverageService.list_full_info(coverage_name)
list_full_info(response) ==
    Then(send_request(response), LAMBDA sent :
    Then(ET_fromstring(sent.text), LAMBDA root : parse_describe_coverage(root)))

\* The text handed to the parser, None when the request raised.
text_parsed(response) ==
    IF IsRaise(send_request(response)) THEN None ELSE send_request(response).val.text

(***************************************************************************)
(* Inputs: bound tokens, bound values, CRS identifiers.                    *)
(***************************************************************************)
TokenAtoms ==
    {"2023-10-05", "20231005", "2023-10-04T14:48:00Z", "2023-10-05 00:00:00",
     "42", "-7", "1_0", "3.14", "1e5", "nan", "hello", "invalid-bound"}

\* The sequences over S of length n, and of length up to n.
RECURSIVE SeqsOfLen(_, _)
SeqsOfLen(S, n) ==
    IF n = 0 THEN {<<>>} ELSE {Append(t, x) : t \in SeqsOfLen(S, n - 1), x \in S}

SeqsUpTo(S, n) == UNION {SeqsOfLen(S, k) : k \in 0..n}

\* A token: quotes and atoms, no two atoms side by side.
TokensOfLen(k) ==
    {t \in SeqsOfLen(TokenAtoms \cup {Q}, k) : \A i \in 1..(k - 1) : t[i] = Q \/ t[i + 1] = Q}

Tokens == UNION {TokensOfLen(k) : k \in 0..MaxTokenLen}

IntValues == {IntV(n) : n \in DOMAIN IntRepr}
FloatValues == {FloatV(r) : r \in {"3.14", "100000.0", "42.0", "-0.1", "inf", "nan"}}
DateValues == {DateV(d) : d \in DOMAIN DateRepr}
TextValues ==
    {Str(s) : s \in {<<"hello">>, <<"42">>, <<"3.14">>, <<"2023-10-05">>, <<>>,
                     <<Q, "hello">>, <<"hello", Q>>, <<"hel", Q, "lo">>}}

ValuesOfKind(kind) ==
    CASE kind = "int" -> IntValues
      [] kind = "float" -> FloatValues
      [] kind = "datetime" -> DateValues
      [] kind = "str" -> TextValues

Def == <<"http:", "/", "/", "www.opengis.net", "/", "def", "/">>
EPSG4326 == Def \o <<"crs", "/", "EPSG", "/", "0", "/", "4326">>
AnsiDate == Def \o <<"crs", "/", "OGC", "/", "0", "/", "AnsiDate">>
Index2D == Def \o <<"crs", "/", "OGC", "/", "0", "/", "Index2D">>
EPSG4326Short == <<"EPSG", ":", "4326">>

SimpleCrss == {EPSG4326, AnsiDate, Index2D, EPSG4326Short}

\* CRS identifiers in path notation, with a version, with too few parts,
\* with a scheme of their own, with a trailing slash, a query and a fragment.
EPSG1 == Def \o <<"crs", "/", "EPSG", "/", "1", "/", "4326">>
TwoParts == <<"0", "/", "4326">>

PathCrss ==
    {<<"EPSG", "/", "0", "/", "4326">>, <<"EPSG", "/", "1", "/", "4326">>, EPSG1, TwoParts,
     <<"EPSG", ":", "0", "/", "4326">>, EPSG4326 \o <<"/">>,
     EPSG1 \o <<"?", "x", "=", "1", "#", "f">>, <<"/", "/", "www.opengis.net">>,
     <<"/">>}

\* The parameters of a compound CRS: numbered sub-CRSs.
CrsParams == [name : {<<"1">>, <<"2">>}, value : {EPSG4326, AnsiDate, EPSG4326Short}]

ParamLists == SeqsUpTo(CrsParams, MaxParams)

\* The same for Crs.to_short_notation: also sub-CRSs it cannot shorten.
ShortParams == [name : {<<"1">>, <<"2">>}, value : {EPSG4326, EPSG1, EPSG4326Short, TwoParts}]

\* .../def/crs-compound?1=...&2=...
CompoundCrs(params) ==
    Def \o <<"crs-compound">> \o
    (IF Len(params) = 0 THEN <<>>
     ELSE <<"?">> \o join(Tuple([i \in 1..Len(params) |->
                             params[i].name \o <<"=">> \o params[i].value]), "&"))

(***************************************************************************)
(* Inputs: the objects and the indexes of the [] operators.                *)
(***************************************************************************)
IndexedClasses == {"BoundingBox", "RangeType"}
ItemNames == {"Lat", "Lon", "h"}
IndexInts == (0 - (MaxAxes + 1))..(MaxAxes + 1)

\* The item at position i: its low bound, or its label, tells the position.
IndexedItem(cls, name, i) ==
    IF cls = "BoundingBox"
    THEN Axis(Str(<<name>>), IntV(i), IntV(i + 10), None, None, None, None)
    ELSE Field(Str(<<name>>), TRUE, None, Str(<<ToString(i)>>), None, None, None, PyList(<<>>))

IndexedObject(cls, names) ==
    IF cls = "BoundingBox"
    THEN BoundingBox(Tuple([i \in 1..Len(names) |-> IndexedItem(cls, names[i], i)]), None)
    ELSE RangeType(Tuple([i \in 1..Len(names) |-> IndexedItem(cls, names[i], i)]))

(***************************************************************************)
(* Inputs: bounding-box elements.                                          *)
(***************************************************************************)
NsOws == <<"{http://www.opengis.net/ows/2.0", "}">>

\* No attribute.
NoAttrib == <<>>

Leaf(tag, text) == Element(tag, NoAttrib, text, <<>>)

\* The bounds of the docstring's example, and two more.
LowTokens ==
    <<<<Q, "2002-07-01T00:00:00.000Z", Q>>, <<"-90">>, <<"-180">>, <<"0">>, <<"7">>>>
HighTokens ==
    <<<<Q, "2015-05-01T00:00:00.000Z", Q>>, <<"90">>, <<"180">>, <<"10">>, <<"42">>>>

\* The text of a corner with n bounds: None for n = -1 (an empty element),
\* white space for n = 0, a word that is no bound for n = MaxBounds + 1.
CornerText(tokens, n) ==
    IF n = 0 - 1 THEN None
    ELSE IF n = 0 THEN Str(<<"\n", " ">>)
    ELSE IF n = MaxBounds + 1 THEN Str(<<"invalid-bound">>)
    ELSE Str(<<"\n">> \o join(SubSeq(tokens, 1, n), " ") \o <<" ">>)

CornerSizes == (0 - 1)..(MaxBounds + 1)

\* The children of a bounding box: LowerCorner, UpperCorner and others.
ChildShapes == SeqsUpTo({"L", "U", "X"}, MaxChildren)

BBoxChildren(shape, nLow, nHigh) ==
    Tuple([i \in 1..Len(shape) |->
        CASE shape[i] = "L" -> Leaf(NsOws \o <<"LowerCorner">>, CornerText(LowTokens, nLow))
          [] shape[i] = "U" -> Leaf(NsOws \o <<"UpperCorner">>, CornerText(HighTokens, nHigh))
          [] shape[i] = "X" -> Leaf(<<"foo">>, None)])

\* A CRS as the server states it: the sub-CRSs of a compound CRS, or
\* one simple CRS.
CrsOf(desc) ==
    IF desc.compound
    THEN Str(CompoundCrs(Tuple([i \in 1..Len(desc.subs) |->
                             [name |-> <<ToString(i)>>, value |-> desc.subs[i]]])))
    ELSE Str(desc.subs[1])

Simple(c) == [compound |-> FALSE, subs |-> <<c>>]
Compound(cs) == [compound |-> TRUE, subs |-> cs]

CrsDescs ==
    {Simple(EPSG4326), Simple(AnsiDate), Simple(EPSG4326Short),
     Compound(<<AnsiDate, EPSG4326>>), Compound(<<EPSG4326, AnsiDate>>)}

BBoxTags == {<<"BoundingBox">>, NsOws \o <<"WGS84BoundingBox">>, <<"InvalidTag">>}

BBoxElement(tag, crs, shape, nLow, nHigh) ==
    Element(tag,
            IF crs = None THEN NoAttrib ELSE ("crs" :> crs) @@ ("dimensions" :> Str(<<"2">>)),
            Str(<<"\n">>),
            BBoxChildren(shape, nLow, nHigh))

(***************************************************************************)
(* Inputs: DomainSet elements.                                             *)
(***************************************************************************)
NsCis == <<"{http://www.opengis.net/cis/1.1/gml", "}">>
NsSwe == <<"{http://www.opengis.net/swe/2.0", "}">>
NsWcs == <<"{http://www.opengis.net/wcs/2.0", "}">>

\* An attribute, when it is present.
Opt(present, attrib) == IF present THEN attrib ELSE NoAttrib

Node(tag, attrib, children) == Element(tag, attrib, Str(<<"\n">>), children)

\* The bounds, unit and resolution the documents give the axis of a name.
AxisLow == "Lat" :> <<"-90">> @@ "Lon" :> <<"-180">> @@ "h" :> <<"0">> @@ "" :> <<"0">>
           @@ "E" :> <<"0">>
           @@ "ansi" :> <<Q, "2002-07-01T00:00:00.000Z", Q>>
AxisHigh == "Lat" :> <<"90">> @@ "Lon" :> <<"180">> @@ "h" :> <<"10">> @@ "" :> <<"10">>
            @@ "E" :> <<"10">>
            @@ "ansi" :> <<Q, "2015-05-01T00:00:00.000Z", Q>>
AxisUom == "Lat" :> "degree" @@ "Lon" :> "degree" @@ "h" :> "m" @@ "" :> "m" @@ "ansi" :> "d"
           @@ "E" :> "m"
AxisRes == "Lat" :> "-0.1" @@ "Lon" :> "0.1" @@ "h" :> "42" @@ "" :> "0.1" @@ "ansi" :> "1e5"
           @@ "E" :> "5"

\* The shape of a child of GeneralGrid.  t = "R": a RegularAxis, k = 0
\* without resolution, 1 with a numeric one, 2 with a textual one, 3 with
\* a lower bound that is no bound.  t = "I": an IrregularAxis with k C
\* children.  t = "G": GridLimits with k IndexAxis children.  t = "X":
\* another element.  name = "": no axisLabel attribute.
AxisShapes ==
    {[t |-> "R", name |-> n, k |-> 1] : n \in {"Lat", "Lon", ""}} \cup
    {[t |-> "R", name |-> "Lon", k |-> 0], [t |-> "R", name |-> "ansi", k |-> 2],
     [t |-> "R", name |-> "Lat", k |-> 3],
     [t |-> "I", name |-> "ansi", k |-> 2], [t |-> "I", name |-> "ansi", k |-> 0],
     [t |-> "I", name |-> "h", k |-> 1],
     [t |-> "G", name |-> "", k |-> 2], [t |-> "G", name |-> "", k |-> 0],
     [t |-> "X", name |-> "", k |-> 0]}

Coefficients == <<AxisLow["ansi"], AxisHigh["ansi"]>>
HCoefficients == <<<<"7">>, <<"10">>, <<"42">>>>

IndexAxes ==
    <<Element(NsCis \o <<"IndexAxis">>,
              "axisLabel" :> Str(<<"i">>) @@ "lowerBound" :> Str(<<"0">>)
              @@ "upperBound" :> Str(<<"184">>), None, <<>>),
      Element(NsCis \o <<"IndexAxis">>,
              "axisLabel" :> Str(<<"j">>) @@ "lowerBound" :> Str(<<"0">>)
              @@ "upperBound" :> Str(<<"1799">>), None, <<>>),
      Element(NsCis \o <<"IndexAxis">>,
              "axisLabel" :> Str(<<"k">>) @@ "lowerBound" :> Str(<<"0">>)
              @@ "upperBound" :> Str(<<"10">>), None, <<>>)>>

AxisElement(shape) ==
    LET label == Opt(shape.name # "", "axisLabel" :> Str(<<shape.name>>))
        uom == "uomLabel" :> Str(<<AxisUom[shape.name]>>)
    IN  CASE shape.t = "R" ->
               Element(NsCis \o <<"RegularAxis">>,
                       label @@ uom
                       @@ "lowerBound" :> Str(IF shape.k = 3 THEN <<"invalid-bound">>
                                              ELSE AxisLow[shape.name])
                       @@ "upperBound" :> Str(AxisHigh[shape.name])
                       @@ Opt(shape.k # 0,
                              "resolution" :> Str(IF shape.k = 2 THEN <<"hello">>
                                                  ELSE <<AxisRes[shape.name]>>)),
                       None, <<>>)
          [] shape.t = "I" ->
               Node(NsCis \o <<"IrregularAxis">>, label @@ uom,
                    Tuple([i \in 1..shape.k |->
                        Leaf(NsCis \o <<"C">>,
                             Str(IF shape.name = "ansi" THEN Coefficients[i]
                                 ELSE HCoefficients[i]))]))
          [] shape.t = "G" ->
               Node(NsCis \o <<"GridLimits">>,
                    "srsName" :> Str(Index2D) @@ "axisLabels" :> Str(<<"i", " ", "j">>),
                    SubSeq(IndexAxes, 1, shape.k))
          [] shape.t = "X" ->
               Leaf(NsCis \o <<"DisplacementAxis">>, None)

\* The attributes of GeneralGrid: axisLabels (the names, blank-separated)
\* and srsName, each given or not.
GridHeader(labels, has_labels, srs, has_srs) ==
    [labels |-> labels, has_labels |-> has_labels, srs |-> srs, has_srs |-> has_srs]

GridHeaders ==
    <<GridHeader(<<"ansi", "Lat", "Lon">>, TRUE, Compound(<<AnsiDate, EPSG4326>>), TRUE),
      GridHeader(<<"Lon", "Lat">>, TRUE, Simple(EPSG4326), TRUE),
      GridHeader(<<"ansi", "Lat", "Lon">>, TRUE, Simple(EPSG4326), TRUE),
      GridHeader(<<"Lat", "h", "Lon", "ansi">>, TRUE, Simple(AnsiDate), FALSE),
      GridHeader(<<>>, FALSE, Compound(<<AnsiDate, EPSG4326>>), TRUE),
      GridHeader(<<"Lat", "Lon", "ansi">>, TRUE, Compound(<<EPSG4326, AnsiDate>>), TRUE)>>

Words(names) == Tuple([i \in 1..Len(names) |-> <<names[i]>>])

GeneralGrid(header, shapes) ==
    Node(NsCis \o <<"GeneralGrid">>,
         Opt(header.has_srs, "srsName" :> CrsOf(header.srs))
         @@ Opt(header.has_labels, "axisLabels" :> Str(join(Words(header.labels), " "))),
         Tuple([i \in 1..Len(shapes) |-> AxisElement(shapes[i])]))

DomainSet(children) == Node(NsCis \o <<"DomainSet">>, NoAttrib, children)

\* DomainSet elements of another structure.
OtherDomainSets ==
    <<Node(NsCis \o <<"InvalidTag">>, NoAttrib,
           <<GeneralGrid(GridHeaders[1], <<>>)>>),
      DomainSet(<<>>),
      DomainSet(<<Node(NsCis \o <<"RectifiedGrid">>, NoAttrib, <<>>)>>),
      DomainSet(<<Leaf(<<"foo">>, None), GeneralGrid(GridHeaders[1], <<>>)>>)>>

(***************************************************************************)
(* Inputs: RangeType elements.                                             *)
(***************************************************************************)
NilValueElement(value, reason) ==
    Element(NsSwe \o <<"nilValue">>, "reason" :> Str(reason), Str(<<value>>), <<>>)

NilValues(values) == Node(NsSwe \o <<"nilValues">>, NoAttrib,
                          <<Node(NsSwe \o <<"NilValues">>, NoAttrib, values)>>)

Definition == "definition" :> Str(<<"http:", "/", "/", "example.org", "/", "def">>)

FieldShapes == {"Q-full", "C-full", "C-xlink", "Q-bare", "Q-twice", "no-child", "no-nil"}

FieldElement(shape) ==
    CASE shape = "Q-full" ->
           Node(NsSwe \o <<"field">>, "name" :> Str(<<"temperature">>),
                <<Node(NsSwe \o <<"Quantity">>, Definition,
                       <<Leaf(NsSwe \o <<"label">>, Str(<<"Monthly", " ", "temperature">>)),
                         Leaf(NsSwe \o <<"description">>, Str(<<"hello">>)),
                         NilValues(<<NilValueElement("-9999", <<"missing">>),
                                     NilValueElement("0", <<>>)>>),
                         Element(NsSwe \o <<"uom">>, "code" :> Str(<<"degC">>), None, <<>>)>>)>>)
      [] shape = "C-full" ->
           Node(NsSwe \o <<"field">>, "name" :> Str(<<"land_use">>),
                <<Node(NsSwe \o <<"Category">>, Definition,
                       <<Leaf(NsSwe \o <<"label">>, Str(<<"hello">>)),
                         NilValues(<<>>),
                         Element(NsSwe \o <<"codeSpace">>,
                                 "href" :> Str(<<"http:", "/", "/", "example.org">>),
                                 None, <<>>)>>)>>)
      [] shape = "C-xlink" ->
           Node(NsSwe \o <<"field">>, "name" :> Str(<<"land_use">>),
                <<Node(NsSwe \o <<"Category">>, NoAttrib,
                       <<Element(NsSwe \o <<"codeSpace">>,
                                 "{http://www.w3.org/1999/xlink}href"
                                     :> Str(<<"http:", "/", "/", "example.org">>),
                                 None, <<>>)>>)>>)
      [] shape = "Q-bare" ->
           Node(NsSwe \o <<"field">>, NoAttrib,
                <<Element(NsSwe \o <<"Quantity">>, NoAttrib, None, <<>>)>>)
      [] shape = "Q-twice" ->
           Node(NsSwe \o <<"field">>, "name" :> Str(<<"temperature">>),
                <<Node(NsSwe \o <<"Quantity">>, NoAttrib,
                       <<Leaf(NsSwe \o <<"label">>, Str(<<"hello">>)),
                         NilValues(<<NilValueElement("0", <<>>)>>),
                         Leaf(NsSwe \o <<"label">>, None),
                         Node(NsSwe \o <<"nilValues">>, NoAttrib, <<Leaf(<<"foo">>, None)>>)>>)>>)
      [] shape = "no-child" ->
           Element(NsSwe \o <<"field">>, "name" :> Str(<<"temperature">>), None, <<>>)
      [] shape = "no-nil" ->
           Node(NsSwe \o <<"field">>, "name" :> Str(<<"temperature">>),
                <<Node(NsSwe \o <<"Quantity">>, NoAttrib,
                       <<Element(NsSwe \o <<"nilValues">>, NoAttrib, None, <<>>)>>)>>)

DataRecord(shapes) ==
    Node(NsSwe \o <<"DataRecord">>, NoAttrib,
         Tuple([i \in 1..Len(shapes) |-> FieldElement(shapes[i])]))

RangeTypeElement(children) == Node(NsCis \o <<"RangeType">>, NoAttrib, children)

\* RangeType elements of another structure.
OtherRangeTypes ==
    <<Node(NsCis \o <<"InvalidTag">>, NoAttrib, <<DataRecord(<<"Q-full">>)>>),
      RangeTypeElement(<<>>),
      RangeTypeElement(<<Node(NsSwe \o <<"DataArray">>, NoAttrib, <<>>)>>)>>

(***************************************************************************)
(* Inputs: Metadata elements.                                              *)
(***************************************************************************)
MetadataElements ==
    <<Element(NsCis \o <<"Metadata">>, NoAttrib, None, <<>>),
      Element(NsCis \o <<"Metadata">>, NoAttrib, Str(<<"\n", " ">>), <<>>),
      Element(NsCis \o <<"Metadata">>, NoAttrib, Str(<<" ", "hello", "\n">>), <<>>),
      Element(NsCis \o <<"Metadata">>, "a" :> Str(<<"42">>), None, <<>>),
      Node(NsCis \o <<"Metadata">>, NoAttrib, <<Leaf(<<"title">>, Str(<<"hello">>))>>),
      Element(NsCis \o <<"Metadata">>, "a" :> Str(<<"42">>), Str(<<" ", "hello", " ">>),
              <<Leaf(<<"b">>, Str(<<"42">>)),
                Element(<<"c">>, "x" :> Str(<<"hello">>), Str(<<" ">>), <<>>),
                Leaf(<<"b">>, None),
                Leaf(<<"Metadata">>, Str(<<" ">>))>>),
      Element(NsCis \o <<"InvalidTag">>, NoAttrib, None, <<>>),
      Node(<<"Extension">>, NoAttrib, <<Leaf(<<"Metadata">>, Str(<<"hello">>))>>)>>

\* Elements for element_to_dict: the texts an element has,
DictTexts == {"none", "empty", "blank", "word"}

DictText(text) ==
    CASE text = "none" -> None
      [] text = "empty" -> Str(<<>>)
      [] text = "blank" -> Str(<<"\n", " ">>)
      [] text = "word" -> Str(<<" ", "hello", "\n">>)

\* its children: leaves of two tags, one of them with and without
\* namespace, with and without an attribute, and elements with children
\* of their own,
DictChildKinds ==
    [tag : {"b", "ns-b", "c"}, attr : BOOLEAN, text : {"none", "blank", "word"}, inner : {0}]
    \cup [tag : {"c"}, attr : {FALSE}, text : {"blank"}, inner : {1, 2}]

DictChild(kind) ==
    Element(CASE kind.tag = "b" -> <<"b">>
              [] kind.tag = "ns-b" -> NsCis \o <<"b">>
              [] kind.tag = "c" -> <<"c">>,
            IF kind.attr THEN "x" :> Str(<<"42">>) ELSE NoAttrib,
            DictText(kind.text),
            Tuple([i \in 1..kind.inner |-> Leaf(<<"d">>, Str(<<"42">>))]))

\* and the element itself.
DictElement(attr, text, kinds) ==
    Element(NsCis \o <<"a">>,
            IF attr THEN "id" :> Str(<<"hello">>) ELSE NoAttrib,
            DictText(text),
            Tuple([i \in 1..Len(kinds) |-> DictChild(kinds[i])]))

(***************************************************************************)
(* Inputs: AdditionalParameters and CoverageSummary elements, and          *)
(* GetCapabilities documents.                                              *)
(***************************************************************************)
NameValue(name, value) ==
    Node(NsOws \o <<"AdditionalParameter">>, NoAttrib,
         <<Leaf(NsOws \o <<"Name">>, Str(<<name>>)), Leaf(NsOws \o <<"Value">>, Str(value))>>)

ParamShapes ==
    {"size", "size-real", "list3", "list2", "title", "no-name", "no-value", "empty-name",
     "other-child", "other-tag", "two-names", "two-values"}

ParamElement(shape) ==
    CASE shape = "size" -> NameValue("sizeInBytes", <<"42">>)
      [] shape = "size-real" -> NameValue("sizeInBytes", <<"3.14">>)
      [] shape = "list3" -> NameValue("axisList", <<"ansi", ",", "Lat", ",", "Lon">>)
      [] shape = "list2" -> NameValue("axisList", <<"Lat", ",", "Lon">>)
      [] shape = "title" -> NameValue("title", <<"hello">>)
      [] shape = "no-name" ->
           Node(NsOws \o <<"AdditionalParameter">>, NoAttrib,
                <<Leaf(NsOws \o <<"Value">>, Str(<<"hello">>))>>)
      [] shape = "no-value" ->
           Node(NsOws \o <<"AdditionalParameter">>, NoAttrib,
                <<Leaf(NsOws \o <<"Name">>, Str(<<"title">>))>>)
      [] shape = "empty-name" ->
           Node(NsOws \o <<"AdditionalParameter">>, NoAttrib,
                <<Leaf(NsOws \o <<"Name">>, None), Leaf(NsOws \o <<"Value">>, Str(<<"hello">>))>>)
      [] shape = "other-child" ->
           Node(NsOws \o <<"AdditionalParameter">>, NoAttrib,
                <<Leaf(NsOws \o <<"Name">>, Str(<<"title">>)),
                  Leaf(NsOws \o <<"Value">>, Str(<<"hello">>)),
                  Leaf(NsOws \o <<"foo">>, None)>>)
      [] shape = "other-tag" -> Leaf(NsOws \o <<"foo">>, None)
      [] shape = "two-names" ->
           Node(NsOws \o <<"AdditionalParameter">>, NoAttrib,
                <<Leaf(NsOws \o <<"Name">>, Str(<<"title">>)),
                  Leaf(NsOws \o <<"Name">>, Str(<<"label">>)),
                  Leaf(NsOws \o <<"Value">>, Str(<<"hello">>))>>)
      [] shape = "two-values" ->
           Node(NsOws \o <<"AdditionalParameter">>, NoAttrib,
                <<Leaf(NsOws \o <<"Value">>, Str(<<"hello">>)),
                  Leaf(NsOws \o <<"Name">>, Str(<<"title">>)),
                  Leaf(NsOws \o <<"Value">>, Str(<<"world">>))>>)

AdditionalParameters(tag, shapes) ==
    Node(tag, NoAttrib, Tuple([i \in 1..Len(shapes) |-> ParamElement(shapes[i])]))

ParamsTags == {NsOws \o <<"AdditionalParameters">>, <<"InvalidTag">>}

\* The children of a CoverageSummary.
SummaryChildShapes ==
    {"id", "id-empty", "subtype", "wgs2", "wgs3", "wgs1", "bbox3", "bbox-no-upper",
     "params", "params-size-real", "params-list2", "params-title", "other"}

SummaryChild(shape) ==
    CASE shape = "id" -> Leaf(NsWcs \o <<"CoverageId">>, Str(<<"hello">>))
      [] shape = "id-empty" -> Leaf(NsWcs \o <<"CoverageId">>, None)
      [] shape = "subtype" -> Leaf(NsWcs \o <<"CoverageSubtype">>, Str(<<"GridCoverage">>))
      [] shape = "wgs2" ->
           BBoxElement(NsOws \o <<"WGS84BoundingBox">>, None, <<"L", "U">>, 2, 2)
      [] shape = "wgs3" ->
           BBoxElement(NsOws \o <<"WGS84BoundingBox">>, None, <<"L", "U">>, 3, 3)
      [] shape = "wgs1" ->
           BBoxElement(NsOws \o <<"WGS84BoundingBox">>, None, <<"L", "U">>, 1, 1)
      [] shape = "bbox3" ->
           BBoxElement(NsOws \o <<"BoundingBox">>, CrsOf(Compound(<<AnsiDate, EPSG4326>>)),
                       <<"L", "U">>, 3, 3)
      [] shape = "bbox-no-upper" ->
           BBoxElement(NsOws \o <<"BoundingBox">>, CrsOf(Simple(EPSG4326)), <<"L">>, 2, 2)
      [] shape = "params" ->
           AdditionalParameters(NsOws \o <<"AdditionalParameters">>,
                                <<"size", "list3", "title">>)
      [] shape = "params-size-real" ->
           AdditionalParameters(NsOws \o <<"AdditionalParameters">>, <<"size-real">>)
      [] shape = "params-list2" ->
           AdditionalParameters(NsOws \o <<"AdditionalParameters">>, <<"list2">>)
      [] shape = "params-title" ->
           AdditionalParameters(NsOws \o <<"AdditionalParameters">>, <<"title">>)
      [] shape = "other" -> Leaf(NsOws \o <<"foo">>, None)

CoverageSummary(tag, shapes) ==
    Node(tag, NoAttrib, Tuple([i \in 1..Len(shapes) |-> SummaryChild(shapes[i])]))

SummaryTags == {NsWcs \o <<"CoverageSummary">>, <<"InvalidTag">>}

\* The summaries of a server: every child present, the additional
\* parameters after the bounding boxes and ahead of them.
FullSummaries ==
    {<<"id", "subtype", "wgs2", "bbox3", "params">>,
     <<"id", "subtype", "params", "wgs2", "bbox3">>,
     <<"id", "bbox3", "params-list2", "wgs2">>,
     <<"id", "params", "bbox3", "wgs2", "params-title">>}

\* The children of Contents, each by the shapes of its own children; a
\* child that is no CoverageSummary is <<"other">> under another tag.
SummaryKinds ==
    {<<"id", "subtype", "wgs2", "bbox3", "params">>, <<"id">>, <<"subtype">>,
     <<"id", "params-size-real">>, <<"other">>}

ContentsChild(kind) ==
    CoverageSummary(IF kind = <<"other">> THEN NsWcs \o <<"Extension">>
                    ELSE NsWcs \o <<"CoverageSummary">>, kind)

\* The tags of the element holding the summaries: Contents, with and
\* without namespace, and tags that only end with it or hold it.
ContentsTags ==
    {NsWcs \o <<"Contents">>, <<"Contents">>, NsWcs \o <<"My", "Contents">>,
     NsWcs \o <<"Contents", "Type">>}

\* A GetCapabilities document: the root, with `before` other children
\* ahead of the element tagged `tag`, which holds the summaries.
Capabilities(before, tag, kinds) ==
    Node(NsWcs \o <<"Capabilities">>, "version" :> Str(<<"2.1.0">>),
         Tuple([i \in 1..before |-> Leaf(NsOws \o <<"ServiceIdentification">>, None)])
         \o <<Node(tag, NoAttrib, Tuple([i \in 1..Len(kinds) |-> ContentsChild(kinds[i])]))>>)

(***************************************************************************)
(* Inputs: DescribeCoverage documents.                                     *)
(***************************************************************************)
\* The DomainSet of a coverage description: none, a valid one, and the
\* invalid ones: an IrregularAxis without C, an axis that axisLabels does
\* not list, a RegularAxis without resolution, no axisLabels, a bound that
\* is no bound.
DomainSetKinds ==
    {"none", "valid", "no-coefficients", "unlisted-label", "no-resolution", "no-labels",
     "invalid-bound"}

Lat == [t |-> "R", name |-> "Lat", k |-> 1]
Lon == [t |-> "R", name |-> "Lon", k |-> 1]
Ansi == [t |-> "I", name |-> "ansi", k |-> 2]
Grid == [t |-> "G", name |-> "", k |-> 2]

DomainSetOfKind(kind) ==
    CASE kind = "valid" ->
           DomainSet(<<GeneralGrid(GridHeaders[1], <<Lat, Lon, Ansi, Grid>>)>>)
      [] kind = "no-coefficients" ->
           DomainSet(<<GeneralGrid(GridHeaders[1],
                                   <<Lat, Lon, [t |-> "I", name |-> "ansi", k |-> 0], Grid>>)>>)
      [] kind = "unlisted-label" ->
           DomainSet(<<GeneralGrid(GridHeaders[1],
                                   <<Lat, Lon, [t |-> "I", name |-> "h", k |-> 1], Grid>>)>>)
      [] kind = "no-resolution" ->
           DomainSet(<<GeneralGrid(GridHeaders[1],
                                   <<Lat, [t |-> "R", name |-> "Lon", k |-> 0], Ansi, Grid>>)>>)
      [] kind = "no-labels" ->
           DomainSet(<<GeneralGrid(GridHeaders[5], <<Lat, Lon, Ansi, Grid>>)>>)
      [] kind = "invalid-bound" ->
           DomainSet(<<GeneralGrid(GridHeaders[1],
                                   <<[t |-> "R", name |-> "Lat", k |-> 3], Lon, Ansi, Grid>>)>>)

RangeTypeKinds == {"none", "valid", "no-record", "no-child"}

RangeTypeOfKind(kind) ==
    CASE kind = "valid" -> RangeTypeElement(<<DataRecord(<<"Q-full", "C-full">>)>>)
      [] kind = "no-record" -> RangeTypeElement(<<>>)
      [] kind = "no-child" -> RangeTypeElement(<<DataRecord(<<"no-child">>)>>)

\* The children of a CoverageDescription: CoverageId, Metadata (the m-th
\* of MetadataElements, none for m = 0), DomainSet and RangeType.
DescriptionChildren(has_id, m, domain_set, range_type) ==
    (IF has_id THEN <<Leaf(NsWcs \o <<"CoverageId">>, Str(<<"hello">>))>> ELSE <<>>)
    \o (IF m = 0 THEN <<>> ELSE <<MetadataElements[m]>>)
    \o (IF domain_set = "none" THEN <<>> ELSE <<DomainSetOfKind(domain_set)>>)
    \o (IF range_type = "none" THEN <<>> ELSE <<RangeTypeOfKind(range_type)>>)

DescriptionTags ==
    {NsWcs \o <<"CoverageDescription">>, <<"CoverageDescription">>, NsWcs \o <<"InvalidTag">>,
     NsWcs \o <<"My", "CoverageDescription">>}

\* A DescribeCoverage document: the root and its one child.
CoverageDescriptions(tag, children) ==
    Node(NsWcs \o <<"CoverageDescriptions">>, NoAttrib, <<Node(tag, NoAttrib, children)>>)

(***************************************************************************)
(* Inputs: the axes and the items of Axis.__getitem__.                     *)
(***************************************************************************)
\* The axes parse_domain_set makes of these children of GeneralGrid: an
\* irregular axis of two timestamps, of one and of three numbers; a regular
\* axis of resolution -0.1, of resolution 5.0, and a temporal one; the
\* an index axis of GridLimits.
SliceAxisShapes ==
    <<[t |-> "I", name |-> "ansi", k |-> 2], [t |-> "I", name |-> "h", k |-> 1],
      [t |-> "I", name |-> "h", k |-> 3], [t |-> "R", name |-> "Lat", k |-> 1],
      [t |-> "R", name |-> "E", k |-> 1], [t |-> "R", name |-> "ansi", k |-> 2]>>

AxisOfShape(shape) == axis_step(AxisElement(shape)).val.geo[1]

\* The index axis k of GridLimits, from 0 to 10.
GridAxis == index_axis(IndexAxes[3]).val

\* An axis of a bounding box: without resolution and coefficients.
BareAxis == Axis(Str(<<"Lat">>), IntV(0 - 90), IntV(90), None, None, None, None)

SliceAxes == Tuple([i \in 1..Len(SliceAxisShapes) |-> AxisOfShape(SliceAxisShapes[i])])
             \o <<GridAxis, BareAxis>>

\* start and stop of a slice
SliceCoordinates ==
    <<None, IntV(0), IntV(7), IntV(42), FloatV("3.14"), FloatV("7.0"),
      Str(<<"hello">>), Str(<<"2002-07-01">>), Str(<<"2016-01-01">>),
      Str(<<"2015-05-01T00:00:00.000Z">>), Str(<<"2015-05-01T01:00:00+02:00">>),
      DateV(D_Jul1), DateV(D_Jul1utc), DateV(D_May1utc), DateV(D_May1plus2), DateV(D_Oct5utc)>>

Slice(start, stop) == [kind |-> "slice", start |-> start, stop |-> stop]

\* Items that are no slice.
OtherItems == <<None, IntV(7), Str(<<"2002-07-01">>)>>

\* The axes of the loop of Axis.get_coefficients: the regular axes of
\* numeric bounds (resolution -0.1, 0.1, 5.0 and 1), an irregular axis and
\* an axis without resolution and coefficients.
LoopAxes ==
    <<AxisOfShape([t |-> "R", name |-> "Lat", k |-> 1]),
      AxisOfShape([t |-> "R", name |-> "", k |-> 1]),
      AxisOfShape([t |-> "R", name |-> "E", k |-> 1]),
      GridAxis,
      AxisOfShape([t |-> "I", name |-> "h", k |-> 3]),
      BareAxis>>

(***************************************************************************)
(* Inputs: the fields that are rendered: the fields parse_range_type makes *)
(* of the field elements, the field of test_list_full_info, and fields     *)
(* whose nilValue element has no text.                                     *)
(***************************************************************************)
ParsedFieldShapes == <<"Q-full", "C-full", "C-xlink", "Q-bare", "Q-twice">>

GrayField ==
    Field(Str(<<"Gray">>), TRUE,
          Str(<<"http:", "/", "/", "www.opengis.net", "/", "def", "/", "dataType", "/",
                "OGC", "/", "0", "/", "float32">>),
          Str(<<"Gray">>), None, None, Str(<<"10^0">>),
          PyList(<<NilValue(Str(<<"99999">>), None)>>))

NoTextField(reason) ==
    Field(Str(<<"Gray">>), FALSE, None, None, None, None, None,
          PyList(<<NilValue(Str(<<"0">>), Str(<<>>)), NilValue(None, reason)>>))

RenderedFields ==
    [i \in 1..Len(ParsedFieldShapes) |-> parse_field(FieldElement(ParsedFieldShapes[i])).val]
    \o <<GrayField, NoTextField(Str(<<>>)), NoTextField(Str(<<"missing">>))>>

(***************************************************************************)
(* Inputs: the responses of the server: exception reports, texts that are  *)
(* no documents, GetCapabilities documents of coverages of distinct ids,   *)
(* a DescribeCoverage document; each under a success and an error status.  *)
(***************************************************************************)
ExceptionText(text) == Leaf(NsOws \o <<"ExceptionText">>, text)

OwsException(code, texts) ==
    Node(NsOws \o <<"Exception">>,
         IF code = None THEN NoAttrib ELSE "exceptionCode" :> code, texts)

ExceptionReport(exceptions) ==
    Node(NsOws \o <<"ExceptionReport">>, "version" :> Str(<<"2.0.1">>), exceptions)

NoSuchCoverage == Str(<<"NoSuchCoverage">>)

ExceptionReports ==
    <<ExceptionReport(<<OwsException(NoSuchCoverage, <<ExceptionText(Str(<<"hello">>))>>)>>),
      ExceptionReport(<<OwsException(NoSuchCoverage, <<ExceptionText(Str(<<"hello">>))>>),
                        OwsException(Str(<<"InvalidRequest">>),
                                     <<ExceptionText(Str(<<"invalid-bound">>))>>)>>),
      ExceptionReport(<<OwsException(NoSuchCoverage,
                                     <<ExceptionText(Str(<<"hello">>)),
                                       ExceptionText(Str(<<"invalid-bound">>))>>)>>),
      ExceptionReport(<<OwsException(None, <<ExceptionText(Str(<<"hello">>))>>)>>),
      ExceptionReport(<<OwsException(NoSuchCoverage, <<ExceptionText(None)>>)>>),
      ExceptionReport(<<OwsException(NoSuchCoverage, <<>>)>>),
      ExceptionReport(<<>>)>>

CoverageNames == {"AvgLandTemp", "hello"}

NamedSummary(name) ==
    Node(NsWcs \o <<"CoverageSummary">>, NoAttrib,
         <<Leaf(NsWcs \o <<"CoverageId">>, Str(<<name>>)), SummaryChild("subtype"),
           SummaryChild("wgs2")>>)

\* The coverages of a server have distinct ids.
ServerCoverages ==
    {names \in SeqsUpTo(CoverageNames, MaxSummaries) :
        \A i, j \in 1..Len(names) : names[i] = names[j] => i = j}

ServerCapabilities(names) ==
    Node(NsWcs \o <<"Capabilities">>, "version" :> Str(<<"2.1.0">>),
         <<Leaf(NsOws \o <<"ServiceIdentification">>, None),
           Node(NsWcs \o <<"Contents">>, NoAttrib,
                Tuple([i \in 1..Len(names) |-> NamedSummary(names[i])]))>>)

ServerDescription ==
    CoverageDescriptions(NsWcs \o <<"CoverageDescription">>,
                         DescriptionChildren(TRUE, 0, "valid", "valid"))

StatusCodes == {200, 404, 500}

ResponseTexts ==
    [i \in 1..Len(ExceptionReports) |-> XmlText(ExceptionReports[i])]
    \o <<Str(<<"Not", " ", "Found">>), Str(<<>>), XmlText(ServerDescription)>>

(***************************************************************************)
(* The state machine: one call of one operation.                           *)
(***************************************************************************)
Init ==
    /\ call = [op |-> "init"]
    /\ outcome = None

ParseBound ==
    /\ call.op = "init"
    /\ \/ /\ call' = [op |-> "parse_bound", bound |-> None]
          /\ outcome' = parse_bound(None)
       \/ \E t \in Tokens :
             /\ call' = [op |-> "parse_bound", bound |-> Str(t)]
             /\ outcome' = parse_bound(Str(t))

\* parse_bound applied to a string form of a bound value: str(value),
\* _bound_to_str(value) or the value between double quotes.
RoundTrip ==
    /\ call.op = "init"
    /\ \E kind \in {"int", "float", "datetime", "str"},
          form \in {"str", "_bound_to_str", "quoted"} :
       \E value \in ValuesOfKind(kind) :
          /\ form = "quoted" => kind = "str"
          /\ LET text == CASE form = "str" -> str(value)
                           [] form = "_bound_to_str" -> bound_to_str(value)
                           [] form = "quoted" -> Str(<<Q>> \o value.v \o <<Q>>)
             IN  /\ call' = [op |-> "round_trip", value |-> value, form |-> form,
                             text |-> text]
                 /\ outcome' = parse_bound(text)

CrsToCrsPerAxis ==
    /\ call.op = "init"
    /\ \/ /\ call' = [op |-> "crs_to_crs_per_axis", crs |-> None,
                      compound |-> FALSE, params |-> <<>>]
          /\ outcome' = Return(PyList(crs_to_crs_per_axis(None)))
       \/ \E c \in SimpleCrss :
             /\ call' = [op |-> "crs_to_crs_per_axis", crs |-> Str(c),
                         compound |-> FALSE, params |-> <<>>]
             /\ outcome' = Return(PyList(crs_to_crs_per_axis(Str(c))))
       \/ \E params \in ParamLists :
             /\ call' = [op |-> "crs_to_crs_per_axis", crs |-> Str(CompoundCrs(params)),
                         compound |-> TRUE, params |-> params]
             /\ outcome' = Return(PyList(crs_to_crs_per_axis(Str(CompoundCrs(params)))))

\* Crs.to_short_notation(url)
ToShortNotation ==
    /\ call.op = "init"
    /\ \/ /\ call' = [op |-> "to_short_notation", url |-> None,
                      compound |-> FALSE, params |-> <<>>]
          /\ outcome' = to_short_notation(None)
       \/ \E c \in SimpleCrss \cup PathCrss :
             /\ call' = [op |-> "to_short_notation", url |-> Str(c),
                         compound |-> FALSE, params |-> <<>>]
             /\ outcome' = to_short_notation(Str(c))
       \/ \E params \in SeqsUpTo(ShortParams, MaxParams) :
             /\ call' = [op |-> "to_short_notation", url |-> Str(CompoundCrs(params)),
                         compound |-> TRUE, params |-> params]
             /\ outcome' = to_short_notation(Str(CompoundCrs(params)))

\* parse_bounds_list(element_text): None, or the text of a corner
ParseBoundsList ==
    /\ call.op = "init"
    /\ \E n \in CornerSizes :
          LET element_text == CornerText(LowTokens, n)
          IN  /\ call' = [op |-> "parse_bounds_list", element_text |-> element_text, n |-> n]
              /\ outcome' = Then(parse_bounds_list(element_text),
                                 LAMBDA ret : Return(PyList(ret)))

\* parse_bounding_box(bbox_element, crs): the CRS comes from the parameter,
\* from the crs attribute, from both or from neither.
ParseBoundingBox ==
    /\ call.op = "init"
    /\ \/ /\ call' = [op |-> "parse_bounding_box", element |-> None]
          /\ outcome' = parse_bounding_box(None, None)
       \/ \E tag \in BBoxTags, shape \in ChildShapes, nLow \in CornerSizes,
             nHigh \in CornerSizes,
             attr \in {[given |-> FALSE]} \cup {[given |-> TRUE, desc |-> d] : d \in CrsDescs},
             param \in {[given |-> FALSE], [given |-> TRUE, desc |-> Simple(AnsiDate)]} :
             LET crs == IF attr.given THEN CrsOf(attr.desc) ELSE None
                 crs_arg == IF param.given THEN CrsOf(param.desc) ELSE None
                 element == BBoxElement(tag, crs, shape, nLow, nHigh)
             IN  /\ param.given => attr = [given |-> TRUE, desc |-> Simple(EPSG4326)]
                 /\ call' = [op |-> "parse_bounding_box", element |-> element,
                             crs_arg |-> crs_arg, attr |-> attr, param |-> param,
                             shape |-> shape, nLow |-> nLow, nHigh |-> nHigh]
                 /\ outcome' = parse_bounding_box(element, crs_arg)

ParseWgs84BoundingBox ==
    /\ call.op = "init"
    /\ \/ /\ call' = [op |-> "parse_wgs84_bounding_box", element |-> None]
          /\ outcome' = parse_wgs84_bounding_box(None)
       \/ \E tag \in BBoxTags, shape \in ChildShapes, nLow \in CornerSizes,
             nHigh \in CornerSizes :
             LET element == BBoxElement(tag, None, shape, nLow, nHigh)
             IN  /\ call' = [op |-> "parse_wgs84_bounding_box", element |-> element,
                             shape |-> shape, nLow |-> nLow, nHigh |-> nHigh]
                 /\ outcome' = parse_wgs84_bounding_box(element)

ParseDomainSet ==
    /\ call.op = "init"
    /\ \/ /\ call' = [op |-> "parse_domain_set", form |-> "None", element |-> None]
          /\ outcome' = parse_domain_set(None)
       \/ \E h \in 1..Len(GridHeaders), shapes \in SeqsUpTo(AxisShapes, MaxAxes) :
             LET element == DomainSet(<<GeneralGrid(GridHeaders[h], shapes)>>)
             IN  /\ call' = [op |-> "parse_domain_set", form |-> "grid", element |-> element,
                             header |-> GridHeaders[h], shapes |-> shapes]
                 /\ outcome' = parse_domain_set(element)
       \/ \E i \in 1..Len(OtherDomainSets) :
             /\ call' = [op |-> "parse_domain_set", form |-> "other",
                         element |-> OtherDomainSets[i]]
             /\ outcome' = parse_domain_set(OtherDomainSets[i])

ParseRangeType ==
    /\ call.op = "init"
    /\ \/ /\ call' = [op |-> "parse_range_type", form |-> "None", element |-> None]
          /\ outcome' = parse_range_type(None)
       \/ \E shapes \in SeqsUpTo(FieldShapes, MaxFields) :
             LET element == RangeTypeElement(<<DataRecord(shapes)>>)
             IN  /\ call' = [op |-> "parse_range_type", form |-> "record", element |-> element,
                             shapes |-> shapes]
                 /\ outcome' = parse_range_type(element)
       \/ \E i \in 1..Len(OtherRangeTypes) :
             /\ call' = [op |-> "parse_range_type", form |-> "other",
                         element |-> OtherRangeTypes[i]]
             /\ outcome' = parse_range_type(OtherRangeTypes[i])

ParseMetadata ==
    /\ call.op = "init"
    /\ \/ /\ call' = [op |-> "parse_metadata", form |-> "None", element |-> None]
          /\ outcome' = parse_metadata(None)
       \/ \E m \in 1..Len(MetadataElements) :
             /\ call' = [op |-> "parse_metadata", form |-> "element",
                         element |-> MetadataElements[m], m |-> m]
             /\ outcome' = parse_metadata(MetadataElements[m])

\* element_to_dict(t)
ElementToDict ==
    /\ call.op = "init"
    /\ \E attr \in BOOLEAN, text \in DictTexts,
          kinds \in SeqsUpTo(DictChildKinds, MaxDictChildren) :
          LET t == DictElement(attr, text, kinds)
          IN  /\ call' = [op |-> "element_to_dict", t |-> t, attr |-> attr, text |-> text,
                          kinds |-> kinds]
              /\ outcome' = Return(element_to_dict(t))

ParseAdditionalParameters ==
    /\ call.op = "init"
    /\ \/ /\ call' = [op |-> "parse_additional_parameters", form |-> "None",
                      element |-> None]
          /\ outcome' = parse_additional_parameters(None)
       \/ \E tag \in ParamsTags, shapes \in SeqsUpTo(ParamShapes, MaxParams) :
             LET element == AdditionalParameters(tag, shapes)
             IN  /\ call' = [op |-> "parse_additional_parameters", form |-> "element",
                             element |-> element, shapes |-> shapes]
                 /\ outcome' = parse_additional_parameters(element)

ParseCoverageSummary ==
    /\ call.op = "init"
    /\ \/ /\ call' = [op |-> "parse_coverage_summary", form |-> "None", element |-> None]
          /\ outcome' = parse_coverage_summary(None)
       \/ \E tag \in SummaryTags, shapes \in SeqsUpTo(SummaryChildShapes, MaxChildren) :
             LET element == CoverageSummary(tag, shapes)
             IN  /\ tag = <<"InvalidTag">> => Len(shapes) <= 1
                 /\ call' = [op |-> "parse_coverage_summary", form |-> "element",
                             element |-> element, shapes |-> shapes]
                 /\ outcome' = parse_coverage_summary(element)
       \/ \E shapes \in FullSummaries :
             LET element == CoverageSummary(NsWcs \o <<"CoverageSummary">>, shapes)
             IN  /\ call' = [op |-> "parse_coverage_summary", form |-> "element",
                             element |-> element, shapes |-> shapes]
                 /\ outcome' = parse_coverage_summary(element)

\* parse_coverage_summaries(xml_string), xml_string a well-formed document
ParseCoverageSummaries ==
    /\ call.op = "init"
    /\ \/ \E before \in 0..1, tag \in ContentsTags,
             kinds \in SeqsUpTo(SummaryKinds, MaxSummaries) :
             LET root == Capabilities(before, tag, kinds)
             IN  /\ call' = [op |-> "parse_coverage_summaries", root |-> root,
                             tag |-> tag, kinds |-> kinds]
                 /\ outcome' = parse_coverage_summaries(root)
       \/ \E kinds \in SeqsUpTo(SummaryKinds, 1) :
             LET root == Capabilities(0, NsOws \o <<"OperationsMetadata">>, kinds)
             IN  /\ call' = [op |-> "parse_coverage_summaries", root |-> root,
                             tag |-> NsOws \o <<"OperationsMetadata">>, kinds |-> kinds]
                 /\ outcome' = parse_coverage_summaries(root)

\* parse_describe_coverage(xml_string), xml_string a well-formed document
ParseDescribeCoverage ==
    /\ call.op = "init"
    /\ \E tag \in DescriptionTags, has_id \in BOOLEAN, m \in 0..Len(MetadataElements),
          domain_set \in DomainSetKinds, range_type \in RangeTypeKinds :
          LET root == CoverageDescriptions(
                          tag, DescriptionChildren(has_id, m, domain_set, range_type))
          IN  /\ tag # NsWcs \o <<"CoverageDescription">>
                    => (has_id /\ m = 0 /\ range_type = "valid")
              /\ call' = [op |-> "parse_describe_coverage", root |-> root, tag |-> tag,
                          has_id |-> has_id, m |-> m, domain_set |-> domain_set,
                          range_type |-> range_type]
              /\ outcome' = parse_describe_coverage(root)

\* axis[item]: item a slice start:stop, or another value
AxisGetItem ==
    /\ call.op = "init"
    /\ \E a \in 1..Len(SliceAxes) :
          \/ \E i \in 1..Len(SliceCoordinates), j \in 1..Len(SliceCoordinates) :
                /\ call' = [op |-> "Axis.__getitem__", self |-> SliceAxes[a],
                            item |-> Slice(SliceCoordinates[i], SliceCoordinates[j])]
                /\ outcome' = Axis_getitem(SliceAxes[a],
                                           Slice(SliceCoordinates[i], SliceCoordinates[j]))
          \/ \E i \in 1..Len(OtherItems) :
                /\ call' = [op |-> "Axis.__getitem__", self |-> SliceAxes[a],
                            item |-> OtherItems[i]]
                /\ outcome' = Axis_getitem(SliceAxes[a], OtherItems[i])

\* BoundingBox(axes, None)[index] and RangeType(fields)[index], the items named
\* by names and told apart by their position
GetItem ==
    /\ call.op = "init"
    /\ \E cls \in IndexedClasses, names \in SeqsUpTo(ItemNames, MaxAxes) :
          LET self == IndexedObject(cls, names)
              getitem(index) ==
                  /\ call' = [op |-> "getitem", cls |-> cls, names |-> names, self |-> self,
                              index |-> index]
                  /\ outcome' = IF cls = "BoundingBox" THEN BoundingBox_getitem(self, index)
                                 ELSE RangeType_getitem(self, index)
          IN  \/ \E n \in IndexInts : getitem(IntV(n))
              \/ \E b \in BOOLEAN : getitem([kind |-> "bool", v |-> b])
              \/ \E name \in ItemNames : getitem(Str(<<name>>))
              \/ getitem(None)
              \/ getitem(FloatV("3.14"))

FieldStr ==
    /\ call.op = "init"
    /\ \E i \in 1..Len(RenderedFields) :
          /\ call' = [op |-> "Field.__str__", self |-> RenderedFields[i]]
          /\ outcome' = Field_str(RenderedFields[i])

\* list_coverages(), the server answering the GetCapabilities request with
\* a status and a text
ListCoverages ==
    /\ call.op = "init"
    /\ \E status_code \in StatusCodes :
          \/ \E i \in 1..Len(ResponseTexts) :
                LET response == Response(status_code, ResponseTexts[i])
                IN  /\ call' = [op |-> "list_coverages", response |-> response,
                                parsed |-> text_parsed(response)]
                    /\ outcome' = list_coverages(response)
          \/ \E names \in ServerCoverages :
                LET response == Response(status_code, XmlText(ServerCapabilities(names)))
                IN  /\ call' = [op |-> "list_coverages", response |-> response,
                                parsed |-> text_parsed(response)]
                    /\ outcome' = list_coverages(response)

\* list_full_info(coverage_name), the server answering the DescribeCoverage
\* request with a status and a text
ListFullInfo ==
    /\ call.op = "init"
    /\ \E status_code \in StatusCodes :
          \/ \E i \in 1..Len(ResponseTexts) :
                LET response == Response(status_code, ResponseTexts[i])
                IN  /\ call' = [op |-> "list_full_info", response |-> response,
                                parsed |-> text_parsed(response)]
                    /\ outcome' = list_full_info(response)
          \/ \E names \in ServerCoverages :
                LET response == Response(status_code, XmlText(ServerCapabilities(names)))
                IN  /\ call' = [op |-> "list_full_info", response |-> response,
                                parsed |-> text_parsed(response)]
                    /\ outcome' = list_full_info(response)

Next ==
    \/ ParseBound
    \/ RoundTrip
    \/ CrsToCrsPerAxis
    \/ ToShortNotation
    \/ ParseBoundsList
    \/ ParseBoundingBox
    \/ ParseWgs84BoundingBox
    \/ ParseDomainSet
    \/ ParseRangeType
    \/ ParseMetadata
    \/ ElementToDict
    \/ ParseAdditionalParameters
    \/ ParseCoverageSummary
    \/ ParseCoverageSummaries
    \/ ParseDescribeCoverage
    \/ GetItem
    \/ AxisGetItem
    \/ FieldStr
    \/ ListCoverages
    \/ ListFullInfo

Spec == Init /\ [][Next]_vars

(***************************************************************************)
(* Axis.get_coefficients step by step: one turn of its loop per step.  The *)
(* numbers of the loop are in hundredths (the rounding of a float sum is   *)
(* left out).  ret and current are recorded for MaxCoefficients turns.  A  *)
(* loop whose resolution is not positive goes on beyond them: current only *)
(* moves away from high, so the test of the loop stays as it is, and the   *)
(* further turns are recorded by their parity alone.  A loop of positive   *)
(* resolution is followed for MaxCoefficients turns.                       *)
(***************************************************************************)
\* get_coefficients() up to the loop
GetCoefficients ==
    /\ call.op = "init"
    /\ \E a \in 1..Len(LoopAxes) :
          LET self == LoopAxes[a]
          IN  IF is_irregular(self) \/ ~is_regular(self)
              THEN /\ call' = [op |-> "get_coefficients", self |-> self, pc |-> "done",
                               current |-> 0, ret |-> <<>>, turn |-> 0]
                   /\ outcome' = get_coefficients(self)
              ELSE /\ call' = [op |-> "get_coefficients", self |-> self, pc |-> "while",
                               current |-> num(self.low), ret |-> <<>>, turn |-> 0]
                   /\ outcome' = outcome

\* while current <= self.high: ret.append(current); current += self.resolution
LoopAppend ==
    /\ call.op = "get_coefficients" /\ call.pc = "while"
    /\ call.current <= num(call.self.high)
    /\ Len(call.ret) >= MaxCoefficients => num(call.self.resolution) <= 0
    /\ call' = IF Len(call.ret) < MaxCoefficients
               THEN [call EXCEPT !.ret = Append(@, call.current),
                                 !.current = @ + num(call.self.resolution),
                                 !.turn = 1 - @]
               ELSE [call EXCEPT !.turn = 1 - @]
    /\ outcome' = outcome

\* the loop is left: return ret
LoopReturn ==
    /\ call.op = "get_coefficients" /\ call.pc = "while"
    /\ ~(call.current <= num(call.self.high))
    /\ call' = [call EXCEPT !.pc = "done"]
    /\ outcome' = Return(call.ret)

CoefficientsNext == GetCoefficients \/ LoopAppend \/ LoopReturn

\* The interpreter goes on as long as there is a step to take.
CoefficientsSpec == Init /\ [][CoefficientsNext]_vars /\ WF_vars(CoefficientsNext)

(***************************************************************************)
(* What the inputs mean, stated without the parsers: the values of the     *)
(* corner bounds, and the per-axis CRSs of a CRS as stated.                *)
(***************************************************************************)
LowValues ==
    <<DateV(D_Jul1utc), IntV(0 - 90), IntV(0 - 180), IntV(0), IntV(7)>>
HighValues ==
    <<DateV(D_May1utc), IntV(90), IntV(180), IntV(10), IntV(42)>>

\* The number of bounds in a corner text.
NB(n) == IF n < 0 THEN 0 ELSE n

IsEpsg(c) == c \in {EPSG4326, EPSG4326Short}

\* The position of component i in the per-axis list: every EPSG component
\* before it takes two places.
PerAxisPos(comps, i) == i + Cardinality({j \in 1..(i - 1) : IsEpsg(comps[j])})

PerAxisLen(comps) == Len(comps) + Cardinality({j \in 1..Len(comps) : IsEpsg(comps[j])})

\* ret is comps with every EPSG component doubled in place.
IsPerAxisOf(ret, comps) ==
    /\ Len(ret) = PerAxisLen(comps)
    /\ \A i \in 1..Len(comps) :
          /\ ret[PerAxisPos(comps, i)] = Str(comps[i])
          /\ IsEpsg(comps[i]) => ret[PerAxisPos(comps, i) + 1] = Str(comps[i])

\* The component at position k of a per-axis list of comps.
PerAxisAt(comps, k) ==
    Str(comps[CHOOSE i \in 1..Len(comps) :
                 PerAxisPos(comps, i) = k \/ (IsEpsg(comps[i]) /\ PerAxisPos(comps, i) + 1 = k)])

Has(shape, c) == \E i \in 1..Len(shape) : shape[i] = c

\* A call on an element whose corners, where present, hold valid bounds.
ValidCorners ==
    /\ Has(call.shape, "L") => call.nLow <= MaxBounds
    /\ Has(call.shape, "U") => call.nHigh <= MaxBounds

IsWCSRaise(r) == r.kind = "raise" /\ r.exc = WCSClientException

(***************************************************************************)
(* C3 (as claimed): parse_wgs84_bounding_box raises a WCSClientException   *)
(* whenever the corners do not hold exactly 2 bounds (0, 1, 3 or more),    *)
(* and only with exactly 2 bounds returns the pair of axes named Lon, Lat. *)
(* The code returns Lon/Lat for 3 bounds: zip() drops the third.           *)
(***************************************************************************)
C3_Wgs84RaisesUnlessTwoBounds ==
    (/\ call.op = "parse_wgs84_bounding_box"
     /\ call.element # None
     /\ parse_tag_name(call.element) = <<"WGS84BoundingBox">>
     /\ Has(call.shape, "L") /\ Has(call.shape, "U")
     /\ ValidCorners)
    => IF NB(call.nLow) = 2 /\ NB(call.nHigh) = 2
       THEN /\ outcome.kind = "return"
            /\ outcome.val.kind = "tuple" /\ Len(outcome.val.v) = 2
            /\ outcome.val.v[1].name = Str(<<"Lon">>)
            /\ outcome.val.v[2].name = Str(<<"Lat">>)
            /\ outcome.val.v[1].low = LowValues[1] /\ outcome.val.v[1].high = HighValues[1]
            /\ outcome.val.v[2].low = LowValues[2] /\ outcome.val.v[2].high = HighValues[2]
       ELSE IsWCSRaise(outcome)

(***************************************************************************)
(* C4 (as claimed): parse_bounding_box, on an element whose corners each   *)
(* hold n bounds and whose CRS is given, returns a BoundingBox with        *)
(* exactly n axes, for every CRS.                                          *)
(***************************************************************************)
C4Case ==
    /\ call.op = "parse_bounding_box"
    /\ call.element # None
    /\ Has(call.shape, "L") /\ Has(call.shape, "U")
    /\ ValidCorners
    /\ NB(call.nLow) = NB(call.nHigh)
    /\ call.attr.given \/ call.param.given

C4_ExactlyNAxes ==
    C4Case => /\ outcome.kind = "return"
              /\ Len(outcome.val.axes) = NB(call.nLow)

(***************************************************************************)
(* C4 (amended): under the same conditions parse_bounding_box returns a    *)
(* BoundingBox with min(n, k) axes, k the length of                        *)
(* crs_to_crs_per_axis(crs) (the number of sub-CRSs plus the number of     *)
(* them containing 'EPSG'); axis i has low = the i-th lower bound, high =  *)
(* the i-th upper bound, an empty name and the i-th per-axis CRS; the      *)
(* bounds beyond k are dropped.                                            *)
(***************************************************************************)
C4Crs == IF call.param.given THEN call.param.desc ELSE call.attr.desc

C4_AxesUpToCrs ==
    C4Case =>
        /\ outcome.kind = "return"
        /\ outcome.val.crs = CrsOf(C4Crs)
        /\ Len(outcome.val.axes) = Min(NB(call.nLow), PerAxisLen(C4Crs.subs))
        /\ \A i \in 1..Len(outcome.val.axes) :
              /\ outcome.val.axes[i].low = LowValues[i]
              /\ outcome.val.axes[i].high = HighValues[i]
              /\ outcome.val.axes[i].name = Str(<<>>)
              /\ outcome.val.axes[i].crs = PerAxisAt(C4Crs.subs, i)
              /\ outcome.val.axes[i].resolution = None
              /\ outcome.val.axes[i].coefficients = None

\* Three bounds in each corner and an EPSG CRS: two axes come back.
C4_Witness ==
    /\ C4Case
    /\ NB(call.nLow) = 3
    /\ C4Crs = Simple(EPSG4326)
    /\ outcome.kind = "return"
    /\ Len(outcome.val.axes) = 2

(***************************************************************************)
(* C5 (as claimed): parse_bounding_box raises 'Failed parsing              *)
(* <Tag>/LowerCorner element.' resp. '.../UpperCorner element.' when that  *)
(* corner is missing, <Tag> being the local tag name of the bounding-box   *)
(* element itself, and does so before it looks for the CRS.  The code      *)
(* names the last child of the element instead, whenever it has children.  *)
(***************************************************************************)
C5_MissingCornerNamesElement ==
    (/\ call.op = "parse_bounding_box"
     /\ call.element # None
     /\ ValidCorners
     /\ ~(Has(call.shape, "L") /\ Has(call.shape, "U")))
    => outcome = Raise(WCSClientException,
                       <<"Failed parsing ">> \o parse_tag_name(call.element)
                       \o (IF ~Has(call.shape, "L") THEN <<"/LowerCorner element.">>
                           ELSE <<"/UpperCorner element.">>))

C7_BoundPriority ==
    call.op = "parse_bound" =>
        IF call.bound = None THEN outcome = Return(None)
        ELSE LET body == strip(call.bound.v, {Q})
             IN  CASE IsIso(body) ->
                        outcome = Return(DateV(IsoValue(body)))
                   [] ~IsIso(body) /\ startswith(call.bound.v, Q) ->
                        outcome = Return(Str(body))
                   [] ~IsIso(body) /\ ~startswith(call.bound.v, Q)
                      /\ Accepts(IntTable, body) ->
                        outcome = Return(IntV(IntTable[body[1]]))
                   [] ~IsIso(body) /\ ~startswith(call.bound.v, Q)
                      /\ ~Accepts(IntTable, body) /\ Accepts(FloatTable, body) ->
                        outcome = Return(FloatV(FloatTable[body[1]]))
                   [] OTHER ->
                        outcome = Raise(WCSClientException,
                                        <<"Failed parsing bound '">> \o body \o <<"'">>)

\* 20231005 is an integer literal and an ISO-8601 date: the date wins.
C7_Witness ==
    /\ call.op = "parse_bound"
    /\ call.bound = Str(<<"20231005">>)
    /\ outcome = Return(DateV(D_Oct5))

(***************************************************************************)
(* C1 (as claimed): for every well-formed document,                        *)
(* parse_coverage_summaries and parse_describe_coverage return a result or *)
(* raise a WCSClientException; no other exception escapes.  The code lets  *)
(* through the TypeError of float(None) (a RegularAxis without             *)
(* resolution), the IndexError of coefficients[0] (an IrregularAxis        *)
(* without C), the KeyError of name_to_index[axis.name] (an axisLabel that *)
(* axisLabels does not list) and the ValueError of int(value) (a           *)
(* sizeInBytes that is no integer).                                        *)
(***************************************************************************)
C1_OnlyWCSClientException ==
    call.op \in {"parse_coverage_summaries", "parse_describe_coverage"}
    => (outcome.kind = "return" \/ IsWCSRaise(outcome))

(***************************************************************************)
(* C2 (as claimed): each of parse_domain_set, parse_range_type,            *)
(* parse_metadata, parse_coverage_summary, parse_wgs84_bounding_box,       *)
(* parse_bounding_box and parse_additional_parameters, given an element    *)
(* whose local tag name is not the one it expects, raises                  *)
(* WCSClientException 'Expected a <Tag> element, but got <actual>'.        *)
(***************************************************************************)
ExpectedTag ==
    "parse_domain_set" :> <<"DomainSet">> @@
    "parse_range_type" :> <<"RangeType">> @@
    "parse_metadata" :> <<"Metadata">> @@
    "parse_coverage_summary" :> <<"CoverageSummary">> @@
    "parse_wgs84_bounding_box" :> <<"WGS84BoundingBox">> @@
    "parse_bounding_box" :> <<"BoundingBox">> @@
    "parse_additional_parameters" :> <<"AdditionalParameters">>

C2Case ==
    /\ call.op \in DOMAIN ExpectedTag
    /\ call.element # None
    /\ parse_tag_name(call.element) # ExpectedTag[call.op]

ExpectedButGot ==
    Raise(WCSClientException,
          <<"Expected a ">> \o ExpectedTag[call.op] \o <<" element, but got ">>
          \o parse_tag_name(call.element))

C2_EveryParserValidatesTag == C2Case => outcome = ExpectedButGot

(***************************************************************************)
(* C2 (amended): each of parse_domain_set, parse_range_type,               *)
(* parse_metadata, parse_coverage_summary, parse_wgs84_bounding_box and    *)
(* parse_additional_parameters, given an element whose local tag name is   *)
(* not the one it expects, raises WCSClientException 'Expected a <Tag>     *)
(* element, but got <actual>'.  parse_bounding_box validates no tag: it    *)
(* never raises that exception, and an element of any tag with both        *)
(* corners and a CRS yields a BoundingBox.                                 *)
(***************************************************************************)
C2_AllButBoundingBoxValidateTag ==
    C2Case =>
        IF call.op = "parse_bounding_box"
        THEN /\ outcome # ExpectedButGot
             /\ (/\ Has(call.shape, "L") /\ Has(call.shape, "U")
                 /\ ValidCorners
                 /\ call.attr.given \/ call.param.given)
                => (outcome.kind = "return" /\ outcome.val.kind = "BoundingBox")
        ELSE outcome = ExpectedButGot

\* parse_bounding_box returns a BoundingBox for an element tagged InvalidTag.
C2_Witness ==
    /\ call.op = "parse_bounding_box"
    /\ call.element # None
    /\ parse_tag_name(call.element) = <<"InvalidTag">>
    /\ outcome.kind = "return"
    /\ outcome.val.kind = "BoundingBox"
    /\ Len(outcome.val.axes) = 2

(***************************************************************************)
(* What a GeneralGrid document says, stated without the parser: the names  *)
(* of its Regular/IrregularAxis children and of its IndexAxis children in  *)
(* document order, and the place of a name in axisLabels.                  *)
(***************************************************************************)
IsGeoShape(s) == s.t \in {"R", "I"}

GeoShapes == SelectSeq(call.shapes, IsGeoShape)

RECURSIVE IndexNames(_)
IndexNames(shapes) ==
    IF Len(shapes) = 0 THEN <<>>
    ELSE (IF Head(shapes).t = "G" THEN SubSeq(<<"i", "j", "k">>, 1, Head(shapes).k) ELSE <<>>)
         \o IndexNames(Tail(shapes))

\* The place of a name in axisLabels, the labels being distinct.
LabelPos(name) ==
    CHOOSE i \in 1..Len(call.header.labels) : <<call.header.labels[i]>> = name.v

Count(s, x) == Cardinality({i \in 1..Len(s) : s[i] = x})

DomainSetParsed ==
    /\ call.op = "parse_domain_set"
    /\ call.form = "grid"
    /\ outcome.kind = "return"

GeoAxes == outcome.val.v[1].axes
GridAxes == outcome.val.v[2].axes

(***************************************************************************)
(* C8: after parse_domain_set succeeds, the names of the geo bounding      *)
(* box's axes, read in order, follow the order of the names in axisLabels, *)
(* whatever the order of the RegularAxis/IrregularAxis elements in the     *)
(* document (the geo axes are those elements, each once); the grid         *)
(* bounding box keeps the document order of its IndexAxis elements.        *)
(***************************************************************************)
C8_GeoAxesFollowAxisLabels ==
    DomainSetParsed =>
        /\ Len(GeoAxes) = Len(GeoShapes)
        /\ \A k \in 1..Len(GeoShapes) :
              Count([i \in 1..Len(GeoAxes) |-> GeoAxes[i].name], Str(<<GeoShapes[k].name>>))
              = Count([i \in 1..Len(GeoShapes) |-> GeoShapes[i].name], GeoShapes[k].name)
        /\ \A i, j \in 1..Len(GeoAxes) :
              i < j => LabelPos(GeoAxes[i].name) <= LabelPos(GeoAxes[j].name)
        /\ Len(GridAxes) = Len(IndexNames(call.shapes))
        /\ \A i \in 1..Len(GridAxes) :
              GridAxes[i].name = Str(<<IndexNames(call.shapes)[i]>>)

\* Lat, GridLimits, Lon in the document and axisLabels "Lon Lat": the geo
\* axes come back as Lon, Lat and the grid axes as i, j.
C8_Witness ==
    /\ DomainSetParsed
    /\ call.header.labels = <<"Lon", "Lat">>
    /\ Len(call.shapes) = 3
    /\ call.shapes[1].name = "Lat" /\ call.shapes[2].t = "G" /\ call.shapes[3].name = "Lon"
    /\ Len(GeoAxes) = 2
    /\ GeoAxes[1].name = Str(<<"Lon">>) /\ GeoAxes[2].name = Str(<<"Lat">>)
    /\ Len(GridAxes) = 2
    /\ GridAxes[1].name = Str(<<"i">>) /\ GridAxes[2].name = Str(<<"j">>)

(***************************************************************************)
(* C9 (as claimed): after parse_domain_set succeeds, every axis of the geo *)
(* bounding box has a CRS: axes[i].crs is the i-th entry of                *)
(* crs_to_crs_per_axis(srsName), no geo axis is left with crs = None, and  *)
(* every grid axis has crs = None and resolution 1.                        *)
(***************************************************************************)
\* The sub-CRSs of srsName, none without the attribute.
SrsComponents == IF call.header.has_srs THEN call.header.srs.subs ELSE <<>>

GridAxesBare ==
    \A i \in 1..Len(GridAxes) : GridAxes[i].crs = None /\ GridAxes[i].resolution = IntV(1)

C9_EveryGeoAxisHasCrs ==
    DomainSetParsed =>
        /\ \A i \in 1..Len(GeoAxes) :
              /\ GeoAxes[i].crs # None
              /\ i <= PerAxisLen(SrsComponents)
              /\ GeoAxes[i].crs = PerAxisAt(SrsComponents, i)
        /\ GridAxesBare

(***************************************************************************)
(* C9 (amended): after parse_domain_set succeeds, for each position i up   *)
(* to the length of crs_to_crs_per_axis(srsName), axes[i].crs of the geo   *)
(* bounding box equals the i-th entry of that list, taken in the           *)
(* axisLabels order; the geo axes beyond that length (all of them without  *)
(* srsName) keep crs = None; every grid axis has crs = None and            *)
(* resolution 1.                                                           *)
(***************************************************************************)
C9_GeoAxesCrsUpToPerAxisList ==
    DomainSetParsed =>
        /\ \A i \in 1..Len(GeoAxes) :
              GeoAxes[i].crs = IF i <= PerAxisLen(SrsComponents)
                               THEN PerAxisAt(SrsComponents, i)
                               ELSE None
        /\ GridAxesBare

\* Three geo axes and the srsName EPSG:4326, which stands for two axes:
\* the third axis keeps crs = None.
C9_Witness ==
    /\ DomainSetParsed
    /\ call.header.has_srs /\ call.header.srs = Simple(EPSG4326)
    /\ Len(GeoAxes) = 3
    /\ GeoAxes[1].crs = Str(EPSG4326) /\ GeoAxes[2].crs = Str(EPSG4326)
    /\ GeoAxes[3].crs = None

(***************************************************************************)
(* C10 (as claimed): crs_to_crs_per_axis returns, for a simple CRS, that   *)
(* CRS once, or twice if it contains 'EPSG'; for a compound CRS, its       *)
(* sub-CRSs in query-parameter order, each one containing 'EPSG' twice in  *)
(* adjacent positions and every other one once; for None the empty         *)
(* sequence.  The length of the result is the number of components plus    *)
(* the number of components containing 'EPSG'.                             *)
(***************************************************************************)
ValuesOf(params) == [i \in 1..Len(params) |-> params[i].value]

C10Components(inOrder) ==
    IF call.compound THEN inOrder ELSE <<call.crs.v>>

C10_PerAxisInQueryOrder ==
    call.op = "crs_to_crs_per_axis" =>
        /\ outcome.kind = "return"
        /\ IF call.crs = None THEN outcome.val.v = <<>>
           ELSE IsPerAxisOf(outcome.val.v, C10Components(ValuesOf(call.params)))

(***************************************************************************)
(* C10 (amended): crs_to_crs_per_axis returns, for a simple CRS, that CRS  *)
(* once, or twice if it contains 'EPSG'; for a compound CRS, its sub-CRSs  *)
(* grouped by query-parameter name, the names in the order of their first  *)
(* occurrence and the values of one name in query order (which is the      *)
(* query-parameter order when no name is repeated), each one containing    *)
(* 'EPSG' twice in adjacent positions and every other one once; for None   *)
(* the empty sequence.  The length of the result is the number of          *)
(* components plus the number of components containing 'EPSG'.             *)
(***************************************************************************)
\* The first parameter of the name of parameter i.
FirstOfName(params, i) ==
    CHOOSE j \in 1..i : /\ params[j].name = params[i].name
                        /\ \A k \in 1..(j - 1) : params[k].name # params[i].name

\* Parameter i comes before parameter j when grouped by name.
GroupedBefore(params, i, j) ==
    \/ FirstOfName(params, i) < FirstOfName(params, j)
    \/ FirstOfName(params, i) = FirstOfName(params, j) /\ i < j

GroupedByName(params) ==
    [r \in 1..Len(params) |->
        params[CHOOSE i \in 1..Len(params) :
                  Cardinality({j \in 1..Len(params) : GroupedBefore(params, j, i)}) = r - 1]
            .value]

C10_PerAxisGroupedByName ==
    call.op = "crs_to_crs_per_axis" =>
        /\ outcome.kind = "return"
        /\ IF call.crs = None THEN outcome.val.v = <<>>
           ELSE IsPerAxisOf(outcome.val.v, C10Components(GroupedByName(call.params)))

\* ?1=AnsiDate&2=.../EPSG/0/4326&1=EPSG:4326: the two values named 1 come
\* first.
C10_Witness ==
    /\ call.op = "crs_to_crs_per_axis"
    /\ call.compound
    /\ call.params = <<[name |-> <<"1">>, value |-> AnsiDate],
                       [name |-> <<"2">>, value |-> EPSG4326],
                       [name |-> <<"1">>, value |-> EPSG4326Short]>>
    /\ outcome = Return(PyList(<<Str(AnsiDate), Str(EPSG4326Short), Str(EPSG4326Short),
                                 Str(EPSG4326), Str(EPSG4326)>>))

(***************************************************************************)
(* C11.  Every parser that accepts an optional input returns its empty     *)
(* value for None and raises nothing: parse_domain_set the pair            *)
(* (None, None); parse_range_type, parse_coverage_summary,                 *)
(* parse_wgs84_bounding_box, parse_bounding_box and parse_bound None;      *)
(* parse_metadata and parse_additional_parameters the empty mapping;       *)
(* parse_bounds_list and crs_to_crs_per_axis the empty sequence;           *)
(* Crs.to_short_notation None.                                             *)
(***************************************************************************)
\* The argument of the call made, for the operations of one argument.
Argument ==
    CASE call.op = "parse_bound" -> call.bound
      [] call.op = "parse_bounds_list" -> call.element_text
      [] call.op = "crs_to_crs_per_axis" -> call.crs
      [] call.op = "to_short_notation" -> call.url
      [] call.op \in {"parse_bounding_box", "parse_wgs84_bounding_box", "parse_domain_set",
                      "parse_range_type", "parse_metadata", "parse_additional_parameters",
                      "parse_coverage_summary"} -> call.element
      [] OTHER -> Str(<<>>)

\* The empty value of each operation.
EmptyValue ==
    CASE call.op = "parse_domain_set" -> PyTuple(<<None, None>>)
      [] call.op \in {"parse_metadata", "parse_additional_parameters"} -> EmptyDict
      [] call.op \in {"parse_bounds_list", "crs_to_crs_per_axis"} -> PyList(<<>>)
      [] OTHER -> None

C11_EmptyValueForNone ==
    (call.op # "init" /\ Argument = None) => outcome = Return(EmptyValue)

C11_Witness ==
    /\ call.op = "parse_metadata"
    /\ Argument = None
    /\ outcome = Return(PyDict(<<>>))

(***************************************************************************)
(* C12.  parse_coverage_summaries returns one BasicCoverage per direct     *)
(* child of Contents, in document order (the empty list for an empty       *)
(* Contents), or raises: when a child is no CoverageSummary or fails to    *)
(* parse, the call raises and returns no list of the children parsed       *)
(* before it.                                                              *)
(***************************************************************************)
\* The Contents element is found.
ContentsFound == call.op = "parse_coverage_summaries" /\ endswith(call.tag, "Contents")

\* The child of Contents of this kind parses: it is a CoverageSummary with
\* a CoverageId and, if any, an integer size.
ParsesAsSummary(kind) ==
    Has(kind, "id") /\ ~Has(kind, "other") /\ ~Has(kind, "params-size-real")

\* summary is the BasicCoverage of a child of this kind.
IsSummaryOf(summary, kind) ==
    /\ summary.kind = "BasicCoverage"
    /\ summary.name = Str(<<"hello">>)
    /\ summary.subtype = (IF Has(kind, "subtype") THEN Str(<<"GridCoverage">>) ELSE None)
    /\ (summary.bbox # None) = Has(kind, "bbox3")
    /\ (summary.size_bytes # None) = Has(kind, "params")

C12_AllSummariesOrRaise ==
    ContentsFound =>
        IF \A i \in 1..Len(call.kinds) : ParsesAsSummary(call.kinds[i])
        THEN /\ outcome.kind = "return"
             /\ outcome.val.kind = "list"
             /\ Len(outcome.val.v) = Len(call.kinds)
             /\ \A i \in 1..Len(call.kinds) : IsSummaryOf(outcome.val.v[i], call.kinds[i])
        ELSE IsRaise(outcome)

\* Two summaries of different kinds come back in document order.
C12_Witness ==
    /\ ContentsFound
    /\ Len(call.kinds) = 2
    /\ Has(call.kinds[1], "subtype")
    /\ ParsesAsSummary(call.kinds[1])
    /\ call.kinds[2] = <<"id">>
    /\ outcome.kind = "return"
    /\ Len(outcome.val.v) = 2

(***************************************************************************)
(* C13.  parse_coverage_summaries raises the WCSClientException 'Invalid   *)
(* GetCapabilities document: no Contents element found.' if and only if    *)
(* no element below the root has the local tag name 'Contents', the        *)
(* namespace ignored; when there is one, its children are parsed.          *)
(***************************************************************************)
NoContentsFound ==
    Raise(WCSClientException,
          <<"Invalid GetCapabilities document: no Contents element found.">>)

\* A child of the root has the local tag name Contents.
HasContentsChild ==
    \E i \in 1..Len(call.root.children) : HasTag(call.root.children[i], <<"Contents">>)

C13_NoContentsIffAbsent ==
    call.op = "parse_coverage_summaries" =>
        ((outcome = NoContentsFound) <=> ~HasContentsChild)

(***************************************************************************)
(* C14.  For every CoverageSummary element without a CoverageId child, or  *)
(* whose CoverageId has no text, parse_coverage_summary raises the         *)
(* WCSClientException 'CoverageSummary is missing required CoverageId      *)
(* child element.', whatever its other children hold.                      *)
(***************************************************************************)
\* parse_coverage_summary is called on an element tagged CoverageSummary.
SummaryCase ==
    /\ call.op = "parse_coverage_summary"
    /\ call.form = "element"
    /\ HasTag(call.element, <<"CoverageSummary">>)

MissingCoverageId ==
    Raise(WCSClientException,
          <<"CoverageSummary is missing required CoverageId child element.">>)

\* No CoverageId child has a text.
NoCoverageIdText == ~Has(call.shapes, "id")

C14_MissingIdWhateverTheRest ==
    (SummaryCase /\ NoCoverageIdText) => outcome = MissingCoverageId

\* The children that fail to parse: a WGS84BoundingBox of one bound, a
\* BoundingBox without UpperCorner.
FailingShapes == {"wgs1", "bbox-no-upper"}

\* The last CoverageId child, if any, has no text.
LastIdWithoutText ==
    \A i \in 1..Len(call.shapes) :
        call.shapes[i] = "id" => \E j \in (i + 1)..Len(call.shapes) : call.shapes[j] = "id-empty"

\* C14 as the code has it: the children are parsed before the name is
\* looked at, so the exception of the first child that fails to parse comes
\* first; the missing CoverageId is reported when every child parses.
C14_MissingIdAfterChildren ==
    (SummaryCase /\ LastIdWithoutText) =>
        IF \E i \in 1..Len(call.shapes) : call.shapes[i] \in FailingShapes
        THEN /\ IsWCSRaise(outcome)
             /\ outcome # MissingCoverageId
             /\ outcome = summary_step(call.element.children[
                              CHOOSE i \in 1..Len(call.shapes) :
                                  /\ call.shapes[i] \in FailingShapes
                                  /\ \A j \in 1..(i - 1) : call.shapes[j] \notin FailingShapes])
        ELSE outcome = MissingCoverageId

C14_Witness ==
    /\ SummaryCase
    /\ NoCoverageIdText
    /\ Has(call.shapes, "params-size-real")
    /\ Has(call.shapes, "wgs2")
    /\ outcome = MissingCoverageId

(***************************************************************************)
(* C15.  In parse_coverage_summary, when the AdditionalParameters hold an  *)
(* axisList and there is a BoundingBox child, the i-th axis of the native  *)
(* bounding box is named by the i-th entry of axisList, be the             *)
(* AdditionalParameters ahead of the BoundingBox or after it; the bounds   *)
(* and the CRS of those axes and the names Lon and Lat of the WGS84 axes   *)
(* are as they were parsed; without an axisList every native axis keeps    *)
(* the empty name; additional_params holds neither sizeInBytes nor         *)
(* axisList.                                                               *)
(***************************************************************************)
\* The last child of the summary of one of the shapes, 0 without one.
LastShape(shapes) ==
    IF \E i \in 1..Len(call.shapes) : call.shapes[i] \in shapes
    THEN CHOOSE i \in 1..Len(call.shapes) :
             /\ call.shapes[i] \in shapes
             /\ \A j \in (i + 1)..Len(call.shapes) : call.shapes[j] \notin shapes
    ELSE 0

LastParams == LastShape({"params", "params-size-real", "params-list2", "params-title"})
LastBBox == LastShape({"bbox3", "bbox-no-upper"})
LastWgs == LastShape({"wgs1", "wgs2", "wgs3"})

\* The entries of the axisList of the AdditionalParameters in force.
AxisListEntries ==
    IF LastParams = 0 THEN <<>>
    ELSE CASE call.shapes[LastParams] = "params" -> <<"ansi", "Lat", "Lon">>
           [] call.shapes[LastParams] = "params-list2" -> <<"Lat", "Lon">>
           [] OTHER -> <<>>

\* parse_coverage_summary returned a coverage.
SummaryParsed == SummaryCase /\ outcome.kind = "return"

\* The native bounding box as parse_bounding_box returns it.
NativeBBox == parse_bounding_box(call.element.children[LastBBox], None).val

\* The Lon and Lat axes as parse_wgs84_bounding_box returns them.
Wgs84Axes == parse_wgs84_bounding_box(call.element.children[LastWgs]).val.v

C15_AxesNamedByAxisList ==
    SummaryParsed =>
        /\ LastBBox = 0 => outcome.val.bbox = None
        /\ LastBBox # 0 =>
              /\ Len(outcome.val.bbox.axes) = Len(NativeBBox.axes)
              /\ outcome.val.bbox.crs = NativeBBox.crs
              /\ \A i \in 1..Len(NativeBBox.axes) :
                    /\ outcome.val.bbox.axes[i].name =
                          (IF i <= Len(AxisListEntries) THEN Str(<<AxisListEntries[i]>>)
                           ELSE Str(<<>>))
                    /\ [outcome.val.bbox.axes[i] EXCEPT !.name = Str(<<>>)]
                          = NativeBBox.axes[i]
        /\ LastWgs = 0 => outcome.val.lon = None /\ outcome.val.lat = None
        /\ LastWgs # 0 =>
              /\ outcome.val.lon.name = Str(<<"Lon">>)
              /\ outcome.val.lat.name = Str(<<"Lat">>)
              /\ outcome.val.lon = Wgs84Axes[1]
              /\ outcome.val.lat = Wgs84Axes[2]
        /\ <<"sizeInBytes">> \notin DOMAIN outcome.val.additional_params.v
        /\ <<"axisList">> \notin DOMAIN outcome.val.additional_params.v

\* The BoundingBox comes first, the AdditionalParameters after it.
C15_Witness ==
    /\ SummaryParsed
    /\ LastBBox # 0
    /\ LastParams > LastBBox
    /\ LastWgs # 0
    /\ call.shapes[LastParams] = "params"
    /\ outcome.val.bbox.axes[1].name = Str(<<"ansi">>)
    /\ outcome.val.bbox.axes[3].name = Str(<<"Lon">>)
    /\ DOMAIN outcome.val.additional_params.v = {<<"title">>}

(***************************************************************************)
(* C16.  parse_additional_parameters returns a mapping with one entry per  *)
(* distinct parameter name, whose value is that of the last                *)
(* AdditionalParameter of that name; it raises a WCSClientException when a *)
(* child of AdditionalParameters is no AdditionalParameter, or when an     *)
(* AdditionalParameter does not consist of exactly one Name and exactly    *)
(* one Value child, each with a text; an element without children gives    *)
(* the empty mapping.                                                      *)
(***************************************************************************)
\* parse_additional_parameters is called on an AdditionalParameters element.
ParamsCase ==
    /\ call.op = "parse_additional_parameters"
    /\ call.form = "element"
    /\ HasTag(call.element, <<"AdditionalParameters">>)

\* The name and the value an AdditionalParameter of each shape states
\* last.
StatedName(shape) ==
    CASE shape \in {"size", "size-real"} -> <<"sizeInBytes">>
      [] shape \in {"list3", "list2"} -> <<"axisList">>
      [] shape = "two-names" -> <<"label">>
      [] OTHER -> <<"title">>

StatedValue(shape) ==
    CASE shape = "size" -> Str(<<"42">>)
      [] shape = "size-real" -> Str(<<"3.14">>)
      [] shape = "list3" -> Str(<<"ansi", ",", "Lat", ",", "Lon">>)
      [] shape = "list2" -> Str(<<"Lat", ",", "Lon">>)
      [] shape = "two-values" -> Str(<<"world">>)
      [] OTHER -> Str(<<"hello">>)

\* The mapping of the names stated to the value stated last for each.
StatedParams ==
    [name \in {StatedName(call.shapes[i]) : i \in 1..Len(call.shapes)} |->
        StatedValue(call.shapes[CHOOSE i \in 1..Len(call.shapes) :
            /\ StatedName(call.shapes[i]) = name
            /\ \A j \in (i + 1)..Len(call.shapes) : StatedName(call.shapes[j]) # name])]

\* The children that are not one Name and one Value with texts.
NotOneNameOneValue ==
    {"no-name", "no-value", "empty-name", "other-child", "other-tag", "two-names",
     "two-values"}

C16_ExactlyOneNameAndValue ==
    ParamsCase =>
        IF \E i \in 1..Len(call.shapes) : call.shapes[i] \in NotOneNameOneValue
        THEN IsWCSRaise(outcome)
        ELSE outcome = Return(PyDict(StatedParams))

(***************************************************************************)
(* C17.  parse_describe_coverage, on a root with a CoverageDescription     *)
(* child, raises the WCSClientException 'No element <Tag> found under      *)
(* element CoverageDescription' when the CoverageId, the DomainSet or the  *)
(* RangeType child is missing: for the first one missing in that order,    *)
(* ahead of any sub-parser; without a Metadata child it succeeds, the      *)
(* metadata being the empty mapping; on a root without a                   *)
(* CoverageDescription child it raises 'Invalid DescribeCoverage           *)
(* document: no CoverageDescription element found.'.                       *)
(***************************************************************************)
DescribeCase == call.op = "parse_describe_coverage"

\* The root has a child with the local tag name CoverageDescription.
HasDescriptionChild ==
    \E i \in 1..Len(call.root.children) :
        HasTag(call.root.children[i], <<"CoverageDescription">>)

NoDescriptionFound ==
    Raise(WCSClientException,
          <<"Invalid DescribeCoverage document: no CoverageDescription element found.">>)

NoElementFound(tag) ==
    Raise(WCSClientException,
          <<"No element ", tag, " found under element ", "CoverageDescription">>)

C17_RequiredChildren ==
    DescribeCase =>
        IF ~HasDescriptionChild THEN outcome = NoDescriptionFound
        ELSE IF ~call.has_id THEN outcome = NoElementFound("CoverageId")
        ELSE IF call.domain_set = "none" THEN outcome = NoElementFound("DomainSet")
        ELSE IF call.range_type = "none" THEN outcome = NoElementFound("RangeType")
        ELSE (call.m = 0 /\ call.domain_set = "valid" /\ call.range_type = "valid") =>
                 /\ outcome.kind = "return"
                 /\ outcome.val.kind = "FullCoverage"
                 /\ outcome.val.metadata = PyDict(<<>>)

(***************************************************************************)
(* C18.  parse_metadata returns a mapping for every input: the empty       *)
(* mapping for None and for every empty Metadata element (<Metadata/>,     *)
(* <Metadata></Metadata>, white space only), and otherwise the converted   *)
(* content under the key 'Metadata'; it returns neither None nor a string. *)
(***************************************************************************)
\* parse_metadata is called on None or on an element tagged Metadata.
MetadataCase ==
    /\ call.op = "parse_metadata"
    /\ call.form = "element" => HasTag(call.element, <<"Metadata">>)

\* An element without attributes and children, and with no text or white
\* space only.
IsEmptyElement(e) ==
    /\ Len(e.children) = 0
    /\ DOMAIN e.attrib = {}
    /\ e.text # None => strip(e.text.v, Whitespace) = <<>>

C18_AlwaysAMapping ==
    MetadataCase =>
        /\ outcome.kind = "return"
        /\ outcome.val.kind = "dict"
        /\ IF call.form = "None" \/ IsEmptyElement(call.element)
           THEN outcome.val = PyDict(<<>>)
           ELSE outcome.val = element_to_dict(call.element).v[<<"Metadata">>]

(***************************************************************************)
(* C19.  element_to_dict maps a leaf element (no children, no attributes)  *)
(* to its trimmed text, and to None whenever that text is empty: when the  *)
(* element has no text at all and when its text is white space only.       *)
(***************************************************************************)
\* element_to_dict is called on a leaf.
LeafCase == call.op = "element_to_dict" /\ ~call.attr /\ Len(call.kinds) = 0

\* The value under the one key of the result, the tag of the element.
ValueOfElement == outcome.val.v[<<"a">>]

C19_LeafEmptyTextIsNone ==
    LeafCase =>
        /\ outcome.kind = "return"
        /\ DOMAIN outcome.val.v = {<<"a">>}
        /\ ValueOfElement = (IF call.text = "word" THEN Str(<<"hello">>) ELSE None)

\* C19 as the code has it: a text of white space only gives the empty
\* string; None stands for no text at all.
C19_LeafBlankTextIsEmptyString ==
    LeafCase =>
        /\ outcome.kind = "return"
        /\ DOMAIN outcome.val.v = {<<"a">>}
        /\ ValueOfElement = (CASE call.text = "word" -> Str(<<"hello">>)
                               [] call.text = "blank" -> Str(<<>>)
                               [] OTHER -> None)

C19_Witness ==
    /\ LeafCase
    /\ call.text = "blank"
    /\ ValueOfElement = Str(<<>>)

(***************************************************************************)
(* C20.  element_to_dict, for an element with children, has one entry per  *)
(* distinct child tag: the converted value of the child itself when the    *)
(* tag occurs once, the sequence of the values of all its occurrences, in  *)
(* document order, when it repeats; the attributes come under their names  *)
(* prefixed with '@'; there is a '#text' entry only when the element has   *)
(* children or attributes and its trimmed text is not empty.               *)
(***************************************************************************)
\* element_to_dict is called on an element with children or attributes.
NodeCase == call.op = "element_to_dict" /\ (call.attr \/ Len(call.kinds) > 0)

\* The local tag name of a child of each kind.
LocalTag(kind) == IF kind.tag = "c" THEN <<"c">> ELSE <<"b">>

\* The converted value of a child of each kind.
ChildValue(kind) ==
    IF kind.inner = 1 THEN PyDict(<<"d">> :> Str(<<"42">>))
    ELSE IF kind.inner = 2 THEN PyDict(<<"d">> :> PyList(<<Str(<<"42">>), Str(<<"42">>)>>))
    ELSE IF kind.attr
    THEN PyDict((<<"@", "x">> :> Str(<<"42">>))
                @@ (IF kind.text = "word" THEN <<"#text">> :> Str(<<"hello">>) ELSE <<>>))
    ELSE CASE kind.text = "word" -> Str(<<"hello">>)
           [] kind.text = "blank" -> Str(<<>>)
           [] OTHER -> None

\* The children with a local tag name, in document order.
OfTag(k) == SelectSeq(call.kinds, LAMBDA kind : LocalTag(kind) = k)

C20_EntryPerChildTag ==
    NodeCase =>
        /\ outcome.kind = "return"
        /\ ValueOfElement.kind = "dict"
        /\ DOMAIN ValueOfElement.v =
              {LocalTag(call.kinds[i]) : i \in 1..Len(call.kinds)}
              \cup (IF call.attr THEN {<<"@", "id">>} ELSE {})
              \cup (IF call.text = "word" THEN {<<"#text">>} ELSE {})
        /\ \A i \in 1..Len(call.kinds) :
              ValueOfElement.v[LocalTag(call.kinds[i])] =
                  (IF Len(OfTag(LocalTag(call.kinds[i]))) = 1
                   THEN ChildValue(call.kinds[i])
                   ELSE PyList(Map(OfTag(LocalTag(call.kinds[i])), ChildValue)))
        /\ call.attr => ValueOfElement.v[<<"@", "id">>] = Str(<<"hello">>)
        /\ call.text = "word" => ValueOfElement.v[<<"#text">>] = Str(<<"hello">>)

\* A tag that repeats with two different values, under an element with an
\* attribute and a text.
C20_Witness ==
    /\ NodeCase
    /\ call.attr
    /\ call.text = "word"
    /\ Len(call.kinds) = 2
    /\ LocalTag(call.kinds[1]) = <<"b">>
    /\ LocalTag(call.kinds[2]) = <<"b">>
    /\ ChildValue(call.kinds[1]) = Str(<<"hello">>)
    /\ ChildValue(call.kinds[2]) = None
    /\ ValueOfElement.v[<<"b">>] = PyList(<<Str(<<"hello">>), None>>)

(***************************************************************************)
(* C21.  Crs.to_short_notation never raises: for every string it returns   *)
(* a short notation string or None, None when the identifier, or any       *)
(* sub-CRS of a compound identifier, cannot be classified.                  *)
(***************************************************************************)
ShortCase == call.op = "to_short_notation" /\ call.url # None

C21_NeverRaises ==
    ShortCase => /\ outcome.kind = "return"
                 /\ outcome.val.kind \in {"str", "None"}

(***************************************************************************)
(* C22.  Crs.to_short_notation returns an input without '/' unchanged;     *)
(* renders another non-compound input from the last three segments of its  *)
(* path as authority:code when the version is "0" and as                   *)
(* authority:version:code otherwise; and renders a compound input as the    *)
(* short notations of its sub-CRSs joined by '+'.  As claimed the sub-CRSs  *)
(* come in the order of the query string; in the code they come grouped by *)
(* parameter name, an input of fewer than three segments gives None, and a *)
(* sub-CRS without a short notation makes the join raise TypeError.         *)
(***************************************************************************)
\* The segments of the path of the identifier.
PathSegments == split(strip(url_path(call.url.v), {"/"}), {"/"})

Authority == PathSegments[Len(PathSegments) - 2]
Version == PathSegments[Len(PathSegments) - 1]
Code == PathSegments[Len(PathSegments)]

Rendered ==
    IF Version = <<"0">> THEN Authority \o <<":">> \o Code
    ELSE Authority \o <<":">> \o Version \o <<":">> \o Code

\* The short notation of the sub-CRSs drawn; TwoParts has none.
ShortOf(value) ==
    CASE value = EPSG4326 -> <<"EPSG", ":", "4326">>
      [] value = EPSG1 -> <<"EPSG", ":", "1", ":", "4326">>
      [] value = EPSG4326Short -> EPSG4326Short
      [] value = TwoParts -> <<>>

Classified == \A i \in 1..Len(call.params) : call.params[i].value # TwoParts

\* The values of the parameters in the order of the query string.
InQueryOrder(params) == [i \in 1..Len(params) |-> params[i].value]

ShortNotations(values) == Tuple([i \in 1..Len(values) |-> ShortOf(values[i])])

SimpleShortNotation ==
    IF ~Contains(call.url.v, "/") THEN outcome = Return(call.url)
    ELSE IF Len(PathSegments) > 2 THEN outcome = Return(Str(Rendered))
    ELSE outcome = Return(None)

GetItemCase == call.op = "getitem"

Items == IF call.cls = "BoundingBox" THEN call.self.axes ELSE call.self.fields

IsPosition == call.index.kind = "int" /\ call.index.v \in 0..(Len(Items) - 1)

IsKnownName ==
    call.index.kind = "str" /\ \E i \in 1..Len(call.names) : call.index.v = <<call.names[i]>>

FirstNamed ==
    Items[CHOOSE i \in 1..Len(call.names) :
             /\ call.index.v = <<call.names[i]>>
             /\ \A j \in 1..(i - 1) : call.names[j] # call.names[i]]

\* The message names every known name.
ListsKnownNames ==
    \A i \in 1..Len(call.names) : Contains(outcome.msg, call.names[i])

IsKeyError == outcome.kind = "raise" /\ outcome.exc = "KeyError"

\* An integer that is no position, from either end of the list.
IsOutOfBounds ==
    /\ call.index.kind = "int"
    /\ call.index.v \notin (0 - Len(Items))..(Len(Items) - 1)

C23_FailedLookupIsKeyError ==
    GetItemCase =>
        /\ IsPosition => outcome = Return(Items[call.index.v + 1])
        /\ IsKnownName => outcome = Return(FirstNamed)
        /\ call.index.kind = "str" /\ ~IsKnownName => IsKeyError /\ ListsKnownNames
        /\ IsOutOfBounds => IsKeyError
        /\ call.index.kind \in {"None", "float"} => IsKeyError

(***************************************************************************)
(* C24.  Every Axis in a result of parse_domain_set, parse_bounding_box,   *)
(* parse_wgs84_bounding_box or parse_coverage_summary, its name and CRS    *)
(* set, is regular iff its resolution is set and its coefficients are      *)
(* unset, irregular iff its coefficients are a non-empty sequence, and     *)
(* never both.                                                             *)
(***************************************************************************)
AxisParsers ==
    {"parse_domain_set", "parse_bounding_box", "parse_wgs84_bounding_box",
     "parse_coverage_summary"}

\* The axes of a value, one after another.
RECURSIVE AxesOf(_)
AxesOf(v) ==
    CASE v.kind = "Axis" -> <<v>>
      [] v.kind = "BoundingBox" -> v.axes
      [] v.kind \in {"tuple", "list"} -> Flatten(Tuple([i \in 1..Len(v.v) |-> AxesOf(v.v[i])]))
      [] v.kind = "BasicCoverage" -> AxesOf(v.bbox) \o AxesOf(v.lon) \o AxesOf(v.lat)
      [] OTHER -> <<>>

AxesParsed == call.op \in AxisParsers /\ outcome.kind = "return"

ResultAxes == AxesOf(outcome.val)

RegularIffResolutionOnly(axis) ==
    is_regular(axis) <=> (axis.resolution # None /\ axis.coefficients = None)

IrregularIffCoefficients(axis) ==
    is_irregular(axis) <=> (axis.coefficients # None /\ axis.coefficients.v # <<>>)

C24_RegularXorIrregular ==
    AxesParsed =>
        \A i \in 1..Len(ResultAxes) :
            /\ RegularIffResolutionOnly(ResultAxes[i])
            /\ IrregularIffCoefficients(ResultAxes[i])
            /\ ~(is_regular(ResultAxes[i]) /\ is_irregular(ResultAxes[i]))

\* A grid with a regular and an irregular axis, a CRS set on one of them.
C24_Witness ==
    /\ AxesParsed /\ call.op = "parse_domain_set"
    /\ \E i, j \in 1..Len(ResultAxes) :
          /\ is_regular(ResultAxes[i]) /\ ResultAxes[i].crs # None
          /\ is_irregular(ResultAxes[j])

(***************************************************************************)
(* C25.  On an irregular axis of coefficients L, axis[start:stop] returns  *)
(* exactly the coefficients c of L with start <= c <= stop, both ends      *)
(* inclusive, in the order of L; on a temporal axis start and stop may be  *)
(* ISO strings or timestamps, compared in the time zone of the             *)
(* coefficients.  (The lookup assigns nothing to the axis.)                *)
(***************************************************************************)
SliceCase == call.op = "Axis.__getitem__" /\ call.item.kind = "slice"

IrregularSlice == SliceCase /\ is_irregular(call.self)

\* A coordinate of a temporal axis: an ISO string or a timestamp.
IsTimestamp(x) == x.kind = "datetime" \/ (x.kind = "str" /\ IsIso(x.v))

AsTimestamp(x) == IF x.kind = "str" THEN IsoValue(x.v) ELSE x.v

\* The instant of a timestamp: one without a zone is read in the zone of
\* the coefficients.
CoefficientZone == call.self.coefficients.v[1].v.tz

Instant(d) == dt_fields(to_utc(IF d.tz = Naive THEN [d EXCEPT !.tz = CoefficientZone] ELSE d))

ValidBounds ==
    IF is_temporal(call.self)
    THEN IsTimestamp(call.item.start) /\ IsTimestamp(call.item.stop)
    ELSE is_number(call.item.start) /\ is_number(call.item.stop)

Within(c) ==
    IF is_temporal(call.self)
    THEN /\ lex_le(Instant(AsTimestamp(call.item.start)), Instant(c.v))
         /\ lex_le(Instant(c.v), Instant(AsTimestamp(call.item.stop)))
    ELSE num(call.item.start) <= num(c) /\ num(c) <= num(call.item.stop)

C25_CoefficientsWithin ==
    IrregularSlice /\ ValidBounds =>
        outcome = Return(PyList(SelectSeq(call.self.coefficients.v, Within)))

(***************************************************************************)
(* C26.  Axis[item] fails only with WCSClientException: it raises one when *)
(* item is not a slice, when the slice has no stop, when the axis has      *)
(* neither resolution nor coefficients, when the axis is a regular         *)
(* temporal axis, and when start or stop is not a valid coordinate of the  *)
(* axis (a missing start, a value of the wrong type); it raises no other   *)
(* kind of exception for any item.                                         *)
(***************************************************************************)
AxisItemCase == call.op = "Axis.__getitem__"

RaisesClientException == outcome.kind = "raise" /\ outcome.exc = WCSClientException

Inapplicable ==
    \/ ~is_regular(call.self) /\ ~is_irregular(call.self)
    \/ is_temporal(call.self) /\ ~is_irregular(call.self)

InvalidItem ==
    \/ call.item.kind # "slice"
    \/ call.item.stop = None
    \/ ~ValidBounds

C26_OnlyClientException ==
    AxisItemCase =>
        /\ outcome.kind = "raise" => outcome.exc = WCSClientException
        /\ Inapplicable \/ InvalidItem => RaisesClientException

(***************************************************************************)
(* C30.  On every regular axis of numeric bounds low <= high that          *)
(* parse_domain_set makes, its resolution of either sign (as the           *)
(* resolution -0.1 of a Lat axis), Axis.get_coefficients terminates, and   *)
(* returns the values low, low + resolution, ... within [low, high]; so    *)
(* does axis[start:stop].                                                  *)
(***************************************************************************)
CoefficientsReturned == call.op = "get_coefficients" /\ call.pc = "done"

C30_Terminates == <>CoefficientsReturned


(***************************************************************************)
(* C27.  parse_range_type returns a RangeType with exactly one Field per   *)
(* 'field' child of DataRecord, in document order, named by the child's    *)
(* name attribute; is_quantity is true when the structural child of the    *)
(* field is Quantity and false when it is Category; definition, label,     *)
(* description, the href of codeSpace (href or xlink:href, as in the       *)
(* structure the docstring gives), the code of uom and the nil values      *)
(* (text and reason, in document order) are copied when present and are    *)
(* None otherwise.                                                         *)
(***************************************************************************)
RangeTypeParsed ==
    call.op = "parse_range_type" /\ call.form = "record" /\ outcome.kind = "return"

\* The children of DataRecord that are 'field' elements, in document order.
RECURSIVE FieldChildren(_)
FieldChildren(cs) ==
    IF cs = <<>> THEN <<>>
    ELSE (IF HasTag(cs[1], <<"field">>) THEN <<cs[1]>> ELSE <<>>) \o FieldChildren(Tail(cs))

XlinkHref == "{http://www.w3.org/1999/xlink}href"

\* The href of an element, plain or of the xlink namespace.
HrefOf(c) == IF get(c, "href") # None THEN get(c, "href") ELSE get(c, XlinkHref)

\* The nil values a nilValues element lists.
NilValuesListed(c) ==
    IF c.children # <<>> /\ HasTag(c.children[1], <<"NilValues">>)
    THEN PyList([i \in 1..Len(c.children[1].children) |->
                    NilValue(c.children[1].children[i].text,
                             get(c.children[1].children[i], "reason"))])
    ELSE PyList(<<>>)

\* value is what a child of that tag holds, None when there is no such child.
CopiedFrom(quantity, tag, value, held(_)) ==
    IF \E i \in 1..Len(quantity.children) : HasTag(quantity.children[i], tag)
    THEN \E i \in 1..Len(quantity.children) :
            HasTag(quantity.children[i], tag) /\ value = held(quantity.children[i])
    ELSE value = None

FieldCopied(field_element, field) ==
    LET quantity == field_element.children[1]
    IN  /\ field.name = get(field_element, "name")
        /\ HasTag(quantity, <<"Quantity">>) => field.is_quantity
        /\ HasTag(quantity, <<"Category">>) => ~field.is_quantity
        /\ field.definition = get(quantity, "definition")
        /\ CopiedFrom(quantity, <<"label">>, field.label, LAMBDA c : c.text)
        /\ CopiedFrom(quantity, <<"description">>, field.description, LAMBDA c : c.text)
        /\ CopiedFrom(quantity, <<"codeSpace">>, field.codespace, HrefOf)
        /\ CopiedFrom(quantity, <<"uom">>, field.uom, LAMBDA c : get(c, "code"))
        /\ CopiedFrom(quantity, <<"nilValues">>, field.nil_values, NilValuesListed)

C27_OneFieldPerChild ==
    RangeTypeParsed =>
        LET fields == FieldChildren(call.element.children[1].children)
        IN  /\ Len(outcome.val.fields) = Len(fields)
            /\ \A i \in 1..Len(fields) : FieldCopied(fields[i], outcome.val.fields[i])


(***************************************************************************)
(* C28.  The string rendering of a Field has, directly after its name      *)
(* line, the line '      type: Quantity' when is_quantity is true and the  *)
(* line '      type: Category' when it is false, followed by the label,    *)
(* description, definition, nil values, codespace and uom lines that are   *)
(* set, in that order.                                                     *)
(***************************************************************************)
FieldRendered == call.op = "Field.__str__" /\ outcome.kind = "return"

FieldLine(title, value) == <<"\n", "    ", "  ", title>> \o value

NameLine(field) == <<"\n", "    ">> \o field.name.v \o <<":">>

TypeLine(field) ==
    FieldLine("type: ", IF field.is_quantity THEN <<"Quantity">> ELSE <<"Category">>)

LineIfSet(title, value) == IF value = None THEN <<>> ELSE FieldLine(title, value.v)

NilValueShown(nil) ==
    IF nil.reason = None \/ nil.reason.v = <<>> THEN nil.nil_value.v
    ELSE nil.nil_value.v \o <<": ">> \o nil.reason.v

NilValuesLine(field) ==
    IF field.nil_values = None \/ field.nil_values.v = <<>> THEN <<>>
    ELSE FieldLine("nil values: ",
                   join([i \in 1..Len(field.nil_values.v) |->
                            NilValueShown(field.nil_values.v[i])], ","))

C28_TypeLineAfterName ==
    FieldRendered /\ call.self.name # None =>
        outcome.val = Str(NameLine(call.self) \o TypeLine(call.self)
                          \o LineIfSet("label: ", call.self.label)
                          \o LineIfSet("description: ", call.self.description)
                          \o LineIfSet("definition: ", call.self.definition)
                          \o NilValuesLine(call.self)
                          \o LineIfSet("codespace: ", call.self.codespace)
                          \o LineIfSet("uom: ", call.self.uom))


(***************************************************************************)
(* C29.  When the server answers a request with an HTTP error status and   *)
(* an OWS ExceptionReport, list_coverages and list_full_info raise a       *)
(* WCSClientException whose message is one 'exceptionCode: exceptionText'  *)
(* line per ows:Exception, joined by newlines, and the body of the failed  *)
(* response is never handed to parse_coverage_summaries or                 *)
(* parse_describe_coverage; on a success status the response text is       *)
(* parsed, and list_coverages returns one (name, BasicCoverage) pair per   *)
(* coverage.                                                               *)
(***************************************************************************)
ServiceCalled == call.op \in {"list_coverages", "list_full_info"}

ErrorStatus == call.response.status_code >= 400

ReportExceptions == call.response.text.root.children

\* The body is an ExceptionReport of exceptions that have their code.
IsExceptionReport ==
    /\ call.response.text.kind = "xml"
    /\ call.response.text.root.tag = NsOws \o <<"ExceptionReport">>
    /\ \A i \in 1..Len(ReportExceptions) : get(ReportExceptions[i], "exceptionCode") # None

TextOf(exception_text) == IF exception_text.text = None THEN <<>> ELSE exception_text.text.v

ReportLine(ex) ==
    get(ex, "exceptionCode").v \o <<": ">>
    \o Flatten([i \in 1..Len(ex.children) |-> TextOf(ex.children[i])])

ReportMessage == join([i \in 1..Len(ReportExceptions) |-> ReportLine(ReportExceptions[i])], "\n")

SummariesParsed == parse_coverage_summaries(call.response.text.root)

OnePairPerCoverage ==
    /\ SummariesParsed.kind = "return" /\ outcome.kind = "return"
    /\ Cardinality(DOMAIN outcome.val.v) = Len(SummariesParsed.val.v)
    /\ \A i \in 1..Len(SummariesParsed.val.v) :
          LET cov == SummariesParsed.val.v[i]
          IN  /\ cov.kind = "BasicCoverage"
              /\ cov.name.v \in DOMAIN outcome.val.v
              /\ outcome.val.v[cov.name.v] = cov

C29_ReportRaisedTextParsed ==
    ServiceCalled =>
        /\ ErrorStatus => call.parsed = None
        /\ ErrorStatus /\ IsExceptionReport
              => outcome = Raise(WCSClientException, ReportMessage)
        /\ ~ErrorStatus => call.parsed = call.response.text
        /\ ~ErrorStatus /\ call.response.text.kind = "xml" /\ call.op = "list_full_info"
              => outcome = parse_describe_coverage(call.response.text.root)
        /\ ~ErrorStatus /\ call.response.text.kind = "xml" /\ call.op = "list_coverages"
              => \/ outcome.kind = "raise" /\ outcome = SummariesParsed
                 \/ OnePairPerCoverage

====
